---- MODULE Spec2Model ----
(***************************************************************************)
(* Model of the chat-hub orchestration core of n8n                         *)
(* (packages/cli/src/modules/chat-hub/chat-hub.service.ts).                *)
(*                                                                         *)
(* These specifications share this module:                                 *)
(*   SpecHistory / FairSpecHistory  one call of buildMessageHistory, its   *)
(*                                  loop step by step                      *)
(*   SpecAttachment                 one call of                            *)
(*                                  buildContentBlockForAttachment         *)
(*   SpecConversation               one call of buildConversationHistory   *)
(*   Spec                           sendHumanMessage, editMessage and      *)
(*                                  regenerateAIMessage with the detached  *)
(*                                  executions they start                  *)
(*   SpecEdit                       editMessage over a conversation with   *)
(*                                  two branches or a system message       *)
(*   SpecRegenerate                 regenerateAIMessage over a             *)
(*                                  conversation with a retry              *)
(*   SpecStop                       stopGeneration, with the execution     *)
(*                                  ending concurrently                    *)
(*   SpecStream                     reconnectToStream, with the stream     *)
(*                                  producing concurrently                 *)
(*   SpecBranched                   the calls of Spec and stopGeneration   *)
(*                                  over a conversation with two branches  *)
(*   SpecSession                    updateSession and sendHumanMessage     *)
(*                                  over the sessions of two users         *)
(*   SpecBuilder                    the calls of SessionManagerService of  *)
(*                                  the workflow builder                   *)
(*   SpecRedis                      RedisChatHistory used by concurrent    *)
(*                                  clients on one key                     *)
(*   SpecRace                       sendHumanMessage called by two clients *)
(*                                  at once for one waiting reply          *)
(*   SpecRevise                     editMessage and regenerateAIMessage    *)
(*                                  with the detached executions           *)
(*   SpecOwnership                  the calls for a session that is the    *)
(*                                  caller's, another user's, or missing   *)
(***************************************************************************)
EXTENDS Integers, Sequences, FiniteSets, TLC

NULL == 0

(***************************************************************************)
(* Bounds of the model.                                                    *)
(***************************************************************************)
WalkMaxIds == 3
MaxHistory == 2
MaxFiles == 2
MaxCalls == 1
MaxAttachments == 1
MaxChunks == 3
MaxStreams == 1
MaxReconnects == 2
MaxBuilderMessages == 3
MaxBuilderCalls == 2
MaxRedisCalls == 1
MaxBatch == 2

VARIABLES
    \* ---- buildMessageHistory (one call, step by step)
    messages,        \* the argument `messages`: id -> message
    lastMessageId,   \* the argument `lastMessageId`
    visited,         \* local `visited`
    historyIds,      \* local `historyIds`
    current,         \* local `current`
    history,         \* the returned array
    walkPc,          \* "start" | "loop" | "done"
    \* ---- buildContentBlockForAttachment (one call)
    attCall,         \* the arguments, and whether the fetch it may make succeeds
    attOutcome,      \* pending, then what the call returned or threw
    \* ---- buildConversationHistory (one call)
    convCall,        \* the arguments, and which fetch of the call fails (0: none)
    convOutcome,     \* pending, then what the call returned or threw
    \* ---- ChatHubService
    sessions,        \* sessionRepository: session id -> session
    dbMessages,      \* messageRepository: message id -> message
    attachmentStore, \* ids of the attachments the binary-data store holds
    pushed,          \* what chatStreamService has broadcast to the user's connections
    requests,        \* per client, its call in progress: arguments, position, locals, result
    tasks,           \* the detached tasks, by the id of the AI message each one writes
    nextMessageId,   \* next unused message id
    nextExecutionId, \* next unused execution id
    calls,           \* number of calls made so far
    titleCalls,      \* per detached task, how often it called generateSessionTitle
    stopCalls,       \* the stop calls chatHubExecutionService has received, in order
    stream,          \* chatStreamService: the stream of the session and its chunks
    reconnects,      \* the calls of reconnectToStream, in order: arguments, reads, result
    \* ---- SessionManagerService (ai-workflow-builder)
    usesPersistence, \* whether the constructor was given a storage
    storage,         \* ISessionStorage: thread id -> stored session
    checkpointer,    \* MemorySaver: thread id -> latest checkpoint
    builderCall,     \* the last call of the service: arguments and result
    builderCalls,    \* number of calls made so far
    \* ---- RedisChatHistory over the connection of createRedisConnection
    redisStore,      \* the entry of the connection's Map under the key of the session
    redisTtl,        \* whether the history was configured with ttlSeconds
    redisCalls,      \* per client, its call in progress: arguments, position, result
    redisAppends,    \* the calls that have appended, in the order of their first rpush
    redisKept        \* how many of redisAppends were made before the key last expired
                     \* or was cleared

walkVars == <<messages, lastMessageId, visited, historyIds, current, history, walkPc>>
attVars == <<attCall, attOutcome>>
convVars == <<convCall, convOutcome>>

svcVars == <<sessions, dbMessages, attachmentStore, pushed, requests, tasks,
             nextMessageId, nextExecutionId, calls>>

sideVars == <<titleCalls, stopCalls, stream, reconnects>>

builderVars == <<usesPersistence, storage, checkpointer, builderCall, builderCalls>>

redisVars == <<redisStore, redisTtl, redisCalls, redisAppends, redisKept>>

extVars == <<builderVars, redisVars>>

pureVars == <<walkVars, attVars, convVars, extVars>>

vars == <<walkVars, attVars, convVars, svcVars, sideVars, extVars>>

(***************************************************************************)
(* buildMessageHistory                                                     *)
(***************************************************************************)

\* IDs a walk can meet: the keys a mapping may hold and one ID that is never a key.
WalkIds == 1 .. WalkMaxIds
DanglingId == WalkMaxIds + 1
WalkRefs == {NULL} \cup WalkIds \cup {DanglingId}

\* Every mapping id -> message over a subset of WalkIds; as in the callers, the
\* key of an entry is the id of its message.
WalkMappings(ids, refs) ==
    UNION { { [i \in D |-> [id |-> i, previousMessageId |-> f[i]]] : f \in [D -> refs] }
            : D \in SUBSET ids }

\* while (current && !visited.has(current)), with the cycle guard dropped
WalkContinuesUnguarded(cur, vis) == cur # NULL

\* while (current && !visited.has(current))
WalkContinues(cur, vis) == cur # NULL /\ cur \notin vis

\* historyIds.unshift(current), written as a push
UnshiftAsPush(ids, cur) == Append(ids, cur)

\* historyIds.unshift(current)
Unshift(ids, cur) == <<cur>> \o ids

\* messages[current]?.previousMessageId ?? null
PreviousOf(msgs, cur) ==
    IF cur \in DOMAIN msgs THEN msgs[cur].previousMessageId ELSE NULL

\* historyIds.map((id) => messages[id]): an id without message leaves an
\* undefined element in the result.
RECURSIVE MapMessages(_, _)
MapMessages(msgs, ids) ==
    IF ids = <<>> THEN <<>>
    ELSE <<IF Head(ids) \in DOMAIN msgs THEN msgs[Head(ids)]
           ELSE [id |-> NULL, previousMessageId |-> NULL]>>
         \o MapMessages(msgs, Tail(ids))

\* historyIds.flatMap((id) => messages[id] ?? [])
RECURSIVE FlatMapMessages(_, _)
FlatMapMessages(msgs, ids) ==
    IF ids = <<>> THEN <<>>
    ELSE (IF Head(ids) \in DOMAIN msgs THEN <<msgs[Head(ids)]>> ELSE <<>>)
         \o FlatMapMessages(msgs, Tail(ids))

\* The loop of buildMessageHistory run to its end.
RECURSIVE WalkLoop(_, _, _, _)
WalkLoop(msgs, cur, vis, ids) ==
    IF WalkContinues(cur, vis)
    THEN WalkLoop(msgs, PreviousOf(msgs, cur), vis \cup {cur}, Unshift(ids, cur))
    ELSE ids

buildMessageHistory(msgs, last) ==
    IF last = NULL THEN <<>>
    ELSE FlatMapMessages(msgs, WalkLoop(msgs, last, {}, <<>>))

IdleWalk ==
    /\ messages = <<>>
    /\ lastMessageId = NULL
    /\ visited = {}
    /\ historyIds = <<>>
    /\ current = NULL
    /\ history = <<>>
    /\ walkPc = "done"

InitWalk ==
    /\ messages \in WalkMappings(WalkIds, WalkRefs)
    /\ lastMessageId \in WalkRefs
    /\ visited = {}
    /\ historyIds = <<>>
    /\ current = NULL
    /\ history = <<>>
    /\ walkPc = "start"

\* if (!lastMessageId) return []; ... let current = lastMessageId
WalkEnter ==
    /\ walkPc = "start"
    /\ IF lastMessageId = NULL
       THEN /\ walkPc' = "done"
            /\ history' = <<>>
            /\ UNCHANGED current
       ELSE /\ walkPc' = "loop"
            /\ current' = lastMessageId
            /\ UNCHANGED history
    /\ UNCHANGED <<messages, lastMessageId, visited, historyIds>>
    /\ UNCHANGED <<attVars, convVars, svcVars, sideVars, extVars>>

\* one iteration of the while loop
WalkStep ==
    /\ walkPc = "loop"
    /\ WalkContinues(current, visited)
    /\ historyIds' = Unshift(historyIds, current)
    /\ visited' = visited \cup {current}
    /\ current' = PreviousOf(messages, current)
    /\ UNCHANGED <<messages, lastMessageId, history, walkPc>>
    /\ UNCHANGED <<attVars, convVars, svcVars, sideVars, extVars>>

\* the loop condition is false: flatMap and return
WalkReturn ==
    /\ walkPc = "loop"
    /\ ~WalkContinues(current, visited)
    /\ history' = FlatMapMessages(messages, historyIds)
    /\ walkPc' = "done"
    /\ UNCHANGED <<messages, lastMessageId, visited, historyIds, current>>
    /\ UNCHANGED <<attVars, convVars, svcVars, sideVars, extVars>>

(***************************************************************************)
(* Claims about buildMessageHistory                                        *)
(***************************************************************************)

NoRepeat(seq) == \A i, j \in 1 .. Len(seq) : i # j => seq[i].id # seq[j].id

\* C1: buildMessageHistory terminates for every mapping and every terminal ID,
\* cyclic mappings included (the loop runs at most once per ID that exists, and
\* the call reaches its return), and no message ID appears twice in the
\* returned chain.
C1_TerminatesWithoutRepeats ==
    /\ <>(walkPc = "done")
    /\ [](Len(historyIds) <= Cardinality(WalkRefs \ {NULL}))
    /\ [](walkPc = "done" => NoRepeat(history))

\* A finished walk over the two-cycle 1 -> 2 -> 1.
C1_Witness ==
    /\ walkPc = "done"
    /\ lastMessageId = 1
    /\ {1, 2} \subseteq DOMAIN messages
    /\ messages[1].previousMessageId = 2
    /\ messages[2].previousMessageId = 1
    /\ Len(history) = 2

\* The chain from `id` reaches a null parent within n links and meets no ID
\* missing from the mapping: acyclic, no dangling link.
RECURSIVE ChainIsSound(_, _, _)
ChainIsSound(msgs, id, n) ==
    \/ id = NULL
    \/ /\ n > 0
       /\ id \in DOMAIN msgs
       /\ ChainIsSound(msgs, msgs[id].previousMessageId, n - 1)

\* C2: for an acyclic chain with no dangling link the result is the ancestor
\* chain oldest first: the first element has previousMessageId null, every later
\* element's previousMessageId is the id of the element before it, the last
\* element is the terminal message; a null terminal ID gives the empty result.
C2_ChronologicalChain ==
    (walkPc = "done" /\ ChainIsSound(messages, lastMessageId, WalkMaxIds)) =>
        /\ lastMessageId = NULL => history = <<>>
        /\ lastMessageId # NULL =>
            /\ Len(history) >= 1
            /\ history[1].previousMessageId = NULL
            /\ history[Len(history)].id = lastMessageId
            /\ \A i \in 2 .. Len(history) :
                  history[i].previousMessageId = history[i - 1].id

\* A finished walk over a sound chain of three messages.
C2_Witness ==
    /\ walkPc = "done"
    /\ ChainIsSound(messages, lastMessageId, WalkMaxIds)
    /\ Len(history) = 3

\* The chain from `id` meets, within n links, an ID that is not null and has
\* no message in the mapping: a dangling link, or a terminal ID that is absent.
RECURSIVE ChainMeetsGap(_, _, _)
ChainMeetsGap(msgs, id, n) ==
    /\ id # NULL
    /\ \/ id \notin DOMAIN msgs
       \/ n > 0 /\ ChainMeetsGap(msgs, msgs[id].previousMessageId, n - 1)

\* C29: when the chain from the terminal ID meets an ID without message, the
\* walk ends there, and what the call returns holds only messages of the mapping:
\* nothing when the terminal ID itself has no message, and else the chain that
\* starts with the message whose previousMessageId has no message and ends
\* with the terminal message, each element the previous message of the next.
C29_DanglingLinkStopsWalk ==
    (walkPc = "done" /\ ChainMeetsGap(messages, lastMessageId, WalkMaxIds)) =>
        /\ \A i \in 1 .. Len(history) :
              /\ history[i].id \in DOMAIN messages
              /\ history[i] = messages[history[i].id]
        /\ lastMessageId \notin DOMAIN messages => history = <<>>
        /\ lastMessageId \in DOMAIN messages =>
              /\ Len(history) >= 1
              /\ history[1].previousMessageId # NULL
              /\ history[1].previousMessageId \notin DOMAIN messages
              /\ history[Len(history)].id = lastMessageId
              /\ \A i \in 2 .. Len(history) :
                    history[i].previousMessageId = history[i - 1].id

\* A finished walk from message 1 over 1 -> 2 -> an ID without message.
C29_Witness ==
    /\ walkPc = "done"
    /\ lastMessageId = 1
    /\ DOMAIN messages = {1, 2}
    /\ messages[1].previousMessageId = 2
    /\ messages[2].previousMessageId = DanglingId
    /\ historyIds = <<DanglingId, 2, 1>>
    /\ history = <<messages[2], messages[1]>>

(***************************************************************************)
(* buildContentBlockForAttachment                                          *)
(*                                                                         *)
(* Texts are modelled by their lengths: the size accounting reads nothing  *)
(* else of them.  A block carries, next to its type and length, the branch *)
(* that produced it (`kind`).                                              *)
(***************************************************************************)

\* const maxTotalPayloadSize = 20 * 1024 * 1024 * 0.9
maxTotalPayloadSize == (20 * 1024 * 1024 * 9) \div 10

Mime(type, subtype) == [type |-> type, subtype |-> subtype]

\* isTextFile(mimeType)
isTextFile(mimeType) ==
    \/ mimeType.type = "text"
    \/ mimeType = Mime("application", "json")
    \/ mimeType = Mime("application", "xml")
    \/ mimeType = Mime("application", "csv")
    \/ mimeType = Mime("application", "x-yaml")
    \/ mimeType = Mime("application", "yaml")

\* chatHubModelsService.getMimeTypeModality(mimeType)
getMimeTypeModality(mimeType) ==
    IF mimeType.type \in {"image", "audio", "video"} THEN mimeType.type ELSE "file"

\* Length of a string literal of the source.
StrLen(s) ==
    CASE s = "File" -> 4
      [] s = "attachment" -> 10
      [] s = ": " -> 2
      [] s = "\nContent: \n" -> 11
      [] s = "(Use vector store question tool to query this document)" -> 55
      [] s = "\n(Content omitted due to size limit)" -> 36
      [] s = "\n(Unsupported file type)" -> 24
      [] s = "Context file (" -> 14
      [] s = " of " -> 4
      [] s = ")" -> 1

\* Number of decimal digits of n, the length of `${n}`.
RECURSIVE Digits(_)
Digits(n) == IF n < 10 THEN 1 ELSE 1 + Digits(n \div 10)

\* file.type === 'embedding' ? file.fileName : (file.binaryData.fileName ?? 'attachment')
FileNameLen(file) ==
    IF file.type = "embedding" THEN file.fileName
    ELSE IF file.binaryData.fileName = NULL THEN StrLen("attachment")
    ELSE file.binaryData.fileName

TextBlock(len, kind) == [type |-> "text", len |-> len, kind |-> kind]
ImageBlock(len) == [type |-> "image_url", len |-> len, kind |-> "media"]

\* `${prefix}: ${fileName}\n(Content omitted due to size limit)`
SizeLimitPlaceholder(file, prefix) ==
    TextBlock(prefix + StrLen(": ") + FileNameLen(file)
              + StrLen("\n(Content omitted due to size limit)"), "sizeLimit")

\* `${prefix}: ${fileName}\n(Unsupported file type)`
UnsupportedPlaceholder(file, prefix) ==
    TextBlock(prefix + StrLen(": ") + FileNameLen(file)
              + StrLen("\n(Unsupported file type)"), "unsupported")

\* The try block: what it returns, or what it throws.  `fetchOk` tells whether
\* getAsBuffer / getDataUrl, if reached, resolves; `fetched` whether it was
\* reached.
TryBlock(file, currentTotalSize, maxSize, modelMetadata, prefix, fetchOk) ==
    IF currentTotalSize >= maxSize
    THEN [raised |-> "TotalFileSizeExceededError", blocks |-> <<>>, fetched |-> FALSE]
    ELSE IF file.type = "embedding"
    THEN [raised |-> "none", fetched |-> FALSE,
          blocks |-> <<TextBlock(prefix + StrLen(": ") + file.fileName
                                 + StrLen("\nContent: \n")
                                 + StrLen("(Use vector store question tool to query this document)"),
                                 "embedding")>>]
    ELSE IF isTextFile(file.binaryData.mimeType)
    THEN IF ~fetchOk
         THEN [raised |-> "FetchError", blocks |-> <<>>, fetched |-> TRUE]
         ELSE IF currentTotalSize + file.binaryData.payload > maxSize
         THEN [raised |-> "TotalFileSizeExceededError", blocks |-> <<>>, fetched |-> TRUE]
         ELSE [raised |-> "none", fetched |-> TRUE,
               blocks |-> <<TextBlock(prefix + StrLen(": ") + FileNameLen(file)
                                      + StrLen("\nContent: \n") + file.binaryData.payload,
                                      "inline")>>]
    ELSE IF getMimeTypeModality(file.binaryData.mimeType) \notin modelMetadata.inputModalities
    THEN [raised |-> "UnsupportedMimeTypeError", blocks |-> <<>>, fetched |-> FALSE]
    ELSE IF ~fetchOk
    THEN [raised |-> "FetchError", blocks |-> <<>>, fetched |-> TRUE]
    ELSE IF currentTotalSize + file.binaryData.payload > maxSize
    THEN [raised |-> "TotalFileSizeExceededError", blocks |-> <<>>, fetched |-> TRUE]
    ELSE [raised |-> "none", fetched |-> TRUE,
          blocks |-> <<TextBlock(prefix + StrLen(": ") + FileNameLen(file), "label"),
                       ImageBlock(file.binaryData.payload)>>]

\* The catch block with every error turned into the size-limit placeholder.
CatchBlockSwallowing(e, file, prefix) ==
    IF e = "UnsupportedMimeTypeError"
    THEN [threw |-> FALSE, blocks |-> <<UnsupportedPlaceholder(file, prefix)>>]
    ELSE [threw |-> FALSE, blocks |-> <<SizeLimitPlaceholder(file, prefix)>>]

\* The catch block: the two local error classes become placeholders, anything
\* else is thrown again.
CatchBlock(e, file, prefix) ==
    IF e = "TotalFileSizeExceededError"
    THEN [threw |-> FALSE, blocks |-> <<SizeLimitPlaceholder(file, prefix)>>]
    ELSE IF e = "UnsupportedMimeTypeError"
    THEN [threw |-> FALSE, blocks |-> <<UnsupportedPlaceholder(file, prefix)>>]
    ELSE [threw |-> TRUE, blocks |-> <<>>]

buildContentBlockForAttachment(file, currentTotalSize, maxSize, modelMetadata, prefix, fetchOk) ==
    LET t == TryBlock(file, currentTotalSize, maxSize, modelMetadata, prefix, fetchOk)
        c == CatchBlock(t.raised, file, prefix)
    IN  IF t.raised = "none"
        THEN [threw |-> FALSE, blocks |-> t.blocks, fetched |-> t.fetched]
        ELSE [threw |-> c.threw, blocks |-> c.blocks, fetched |-> t.fetched]

(***************************************************************************)
(* buildConversationHistory                                                *)
(***************************************************************************)

RECURSIVE SumLen(_)
SumLen(blocks) == IF blocks = <<>> THEN 0 ELSE Head(blocks).len + SumLen(Tail(blocks))

\* history.slice() without the reverse(): the traversal runs oldest first
NotReversed(seq) == seq

\* history.slice().reverse(), and messageValues.reverse() at the end
RECURSIVE Reverse(_)
Reverse(seq) == IF seq = <<>> THEN <<>> ELSE Append(Reverse(Tail(seq)), Head(seq))

\* typeMap[message.type] || 'system'
RoleOf(type) ==
    CASE type = "human" -> "user"
      [] type = "ai" -> "ai"
      [] OTHER -> "system"

\* Length of the prefix handed to the i-th of n files: 'File' for an attachment
\* of a message, `Context file (${i} of ${n})` for a context file.
PrefixLen(isContext, i, n) ==
    IF isContext
    THEN StrLen("Context file (") + Digits(i) + StrLen(" of ") + Digits(n) + StrLen(")")
    ELSE StrLen("File")

\* The body shared by the two loops over files: resolve files[i], push its
\* blocks, add their lengths to currentTotalSize.  `st.fetches` counts the
\* fetches made so far; the call's `failAt`-th fetch is the one that fails.
RECURSIVE ResolveFiles(_, _, _, _, _, _)
ResolveFiles(files, i, st, modelMetadata, isContext, failAt) ==
    IF st.threw \/ i > Len(files) THEN st
    ELSE LET r == buildContentBlockForAttachment(
                      files[i], st.currentTotalSize, maxTotalPayloadSize, modelMetadata,
                      PrefixLen(isContext, i, Len(files)), st.fetches + 1 # failAt)
         IN  ResolveFiles(files, i + 1,
                 [threw |-> r.threw,
                  currentTotalSize |-> st.currentTotalSize + SumLen(r.blocks),
                  blocks |-> st.blocks \o r.blocks,
                  fetches |-> st.fetches + (IF r.fetched THEN 1 ELSE 0)],
                 modelMetadata, isContext, failAt)

\* An entry of messageValues; `source` (the message's id, 0 for the context
\* files) is bookkeeping of the model.
Entry(type, blocks, hideFromUI, source) ==
    [type |-> type, message |-> blocks, hideFromUI |-> hideFromUI, source |-> source]

\* for (const message of messages) { ... }, messages[k] being the k-th newest
RECURSIVE MessagesLoop(_, _, _, _, _)
MessagesLoop(msgs, k, st, modelMetadata, failAt) ==
    IF st.threw \/ k > Len(msgs) THEN st
    ELSE LET message == msgs[k]
             textSize == message.content
             size == st.currentTotalSize + textSize
         IN  IF message.content = 0
             THEN MessagesLoop(msgs, k + 1, st, modelMetadata, failAt)
             ELSE IF Len(message.attachments) = 0
             THEN MessagesLoop(msgs, k + 1,
                      [st EXCEPT !.currentTotalSize = size,
                                 !.messageValues = Append(@,
                                     Entry(RoleOf(message.type),
                                           <<TextBlock(message.content, "content")>>,
                                           FALSE, message.id))],
                      modelMetadata, failAt)
             ELSE LET r == ResolveFiles(
                               [i \in 1 .. Len(message.attachments) |->
                                   [type |-> "file", binaryData |-> message.attachments[i]]],
                               1,
                               [threw |-> FALSE, currentTotalSize |-> size,
                                blocks |-> <<TextBlock(message.content, "content")>>,
                                fetches |-> st.fetches],
                               modelMetadata, FALSE, failAt)
                  IN  MessagesLoop(msgs, k + 1,
                          [threw |-> r.threw,
                           currentTotalSize |-> r.currentTotalSize,
                           fetches |-> r.fetches,
                           messageValues |-> Append(st.messageValues,
                               Entry(RoleOf(message.type), r.blocks, FALSE, message.id))],
                          modelMetadata, failAt)

\* The hidden entry pushed whether or not the context files gave a block.
WithContextEntryAlways(messageValues, contextFileBlocks) ==
    Append(messageValues, Entry("user", contextFileBlocks, TRUE, 0))

\* if (contextFileBlocks.length > 0) messageValues.push({ type: 'user',
\*     message: contextFileBlocks, hideFromUI: true })
WithContextEntry(messageValues, contextFileBlocks) ==
    IF Len(contextFileBlocks) > 0
    THEN Append(messageValues, Entry("user", contextFileBlocks, TRUE, 0))
    ELSE messageValues

buildConversationHistory(hist, modelMetadata, contextFiles, failAt) ==
    LET afterMessages ==
            MessagesLoop(Reverse(hist), 1,
                [threw |-> FALSE, currentTotalSize |-> 0, fetches |-> 0,
                 messageValues |-> <<>>],
                modelMetadata, failAt)
        afterContext ==
            ResolveFiles(contextFiles, 1,
                [threw |-> afterMessages.threw,
                 currentTotalSize |-> afterMessages.currentTotalSize,
                 blocks |-> <<>>, fetches |-> afterMessages.fetches],
                modelMetadata, TRUE, failAt)
        messageValues == WithContextEntry(afterMessages.messageValues, afterContext.blocks)
    IN  IF afterContext.threw
        THEN [status |-> "threw", messageValues |-> <<>>]
        ELSE [status |-> "returned", messageValues |-> Reverse(messageValues)]

(***************************************************************************)
(* One call of buildContentBlockForAttachment                              *)
(***************************************************************************)

\* Lengths of fetched payloads (decoded text, or data URL) around the budget.
PayloadSizes == {1, maxTotalPayloadSize - 1, maxTotalPayloadSize}

FileNameLens == {NULL, 8}

ModelMetadatas == { [inputModalities |-> {"text"}],
                    [inputModalities |-> {"text", "image"}] }

Binaries(mimeTypes, names) ==
    { [mimeType |-> m, fileName |-> n, payload |-> s] :
        m \in mimeTypes, n \in names, s \in PayloadSizes }

EmbeddingItem == [type |-> "embedding", fileName |-> 8]

FileItems(mimeTypes, names) ==
    { [type |-> "file", binaryData |-> b] : b \in Binaries(mimeTypes, names) }

AttCalls(prefix) ==
    { [file |-> f, currentTotalSize |-> c, modelMetadata |-> md, prefix |-> prefix,
       fetchOk |-> ok] :
        f \in FileItems({Mime("text", "plain"), Mime("application", "json"),
                         Mime("application", "pdf"), Mime("image", "png")}, FileNameLens)
              \cup {EmbeddingItem},
        c \in {0, 1, maxTotalPayloadSize - 1, maxTotalPayloadSize, maxTotalPayloadSize + 1},
        md \in ModelMetadatas,
        ok \in BOOLEAN }

Pending == [status |-> "pending"]

InitAttachment ==
    /\ attCall \in AttCalls(StrLen("File"))
    /\ attOutcome = Pending

IdleAttachment ==
    /\ attCall = [fetchOk |-> TRUE]
    /\ attOutcome = Pending

ResolveAttachment ==
    /\ attOutcome = Pending
    /\ LET r == buildContentBlockForAttachment(
                    attCall.file, attCall.currentTotalSize, maxTotalPayloadSize,
                    attCall.modelMetadata, attCall.prefix, attCall.fetchOk)
       IN  attOutcome' = IF r.threw THEN [status |-> "threw"]
                         ELSE [status |-> "returned", blocks |-> r.blocks]
    /\ UNCHANGED attCall
    /\ UNCHANGED <<walkVars, convVars, svcVars, sideVars, extVars>>

(***************************************************************************)
(* One call of buildConversationHistory                                    *)
(***************************************************************************)

ContentLens == {0, 1}

ConvBinaries == Binaries({Mime("text", "plain"), Mime("image", "png")}, {8})

ConvContextFiles == {[type |-> "file", binaryData |-> b] : b \in ConvBinaries}
                    \cup {EmbeddingItem}

\* A chain alternates human and ai messages, the oldest (id 1) being human.
MessagesWith(id, j) ==
    { [id |-> id, type |-> IF id % 2 = 1 THEN "human" ELSE "ai",
       content |-> c, attachments |-> a] :
        c \in ContentLens, a \in [1 .. j -> ConvBinaries] }

\* The histories of exactly n messages, ids from `id` on, oldest first, that
\* hold at most k attachments in all.
RECURSIVE HistoriesFrom(_, _, _)
HistoriesFrom(id, n, k) ==
    IF n = 0 THEN {<<>>}
    ELSE UNION { { <<m>> \o h : m \in MessagesWith(id, j),
                                h \in HistoriesFrom(id + 1, n - 1, k - j) }
                 : j \in 0 .. k }

\* A call with at most MaxHistory messages and at most MaxFiles files
\* (attachments and context files together).
InitConversation ==
    /\ \E n \in 0 .. MaxHistory, nc \in 0 .. MaxFiles :
          \E h \in HistoriesFrom(1, n, MaxFiles - nc),
             c \in [1 .. nc -> ConvContextFiles],
             md \in ModelMetadatas, fa \in 0 .. MaxFiles :
             convCall = [history |-> h, contextFiles |-> c, modelMetadata |-> md,
                         failAt |-> fa]
    /\ convOutcome = Pending

IdleConversation ==
    /\ convCall = [failAt |-> 0]
    /\ convOutcome = Pending

BuildConversation ==
    /\ convOutcome = Pending
    /\ convOutcome' = buildConversationHistory(convCall.history, convCall.modelMetadata,
                                               convCall.contextFiles, convCall.failAt)
    /\ UNCHANGED convCall
    /\ UNCHANGED <<walkVars, attVars, svcVars, sideVars, extVars>>

(***************************************************************************)
(* Claims about the attachment resolution and the conversation history     *)
(***************************************************************************)

RECURSIVE EmittedLen(_)
EmittedLen(messageValues) ==
    IF messageValues = <<>> THEN 0
    ELSE SumLen(Head(messageValues).message) + EmittedLen(Tail(messageValues))

\* C3: buildConversationHistory never emits cumulative content exceeding the
\* budget: whenever it returns, the lengths of all emitted text and media
\* blocks sum to at most maxTotalPayloadSize (90% of 20 MiB).
C3_EmittedWithinBudget ==
    convOutcome.status = "returned" =>
        EmittedLen(convOutcome.messageValues) <= maxTotalPayloadSize

\* The blocks of an entry that stand for its attachments, one per attachment
\* and in their order: the content block and the media block after a label
\* are left out.
AttachmentBlocks(entry) ==
    SelectSeq(entry.message, LAMBDA b : b.kind \notin {"content", "media"})

Inlined(block) == block.kind \in {"inline", "label"}

\* The entries of history messages (not the hidden entry of the context files)
HistoryEntries(messageValues) ==
    {i \in 1 .. Len(messageValues) : ~messageValues[i].hideFromUI}

\* The i-th attachment of the message an entry was made from
AttachmentOf(entry, i) ==
    LET m == CHOOSE m \in 1 .. Len(convCall.history) :
                 convCall.history[m].id = entry.source
    IN  convCall.history[m].attachments[i]

\* C4 as stated: the attachments replaced by size-limit placeholders are the
\* oldest ones: whenever an attachment is inlined, every attachment of a newer
\* message is inlined too.
C4_NewerAlwaysInlined ==
    convOutcome.status = "returned" =>
        LET mv == convOutcome.messageValues
        IN  \A a, b \in HistoryEntries(mv) :
               (/\ mv[a].source < mv[b].source
                /\ \E i \in DOMAIN AttachmentBlocks(mv[a]) :
                      Inlined(AttachmentBlocks(mv[a])[i]))
               => \A j \in DOMAIN AttachmentBlocks(mv[b]) :
                     Inlined(AttachmentBlocks(mv[b])[j])

\* C4 as amended: whenever an attachment is inlined, no attachment of a newer
\* message whose fetched payload is no longer than its own is replaced by the
\* size-limit placeholder.
C4_NewerNoLargerNotOmitted ==
    convOutcome.status = "returned" =>
        LET mv == convOutcome.messageValues
        IN  \A a, b \in HistoryEntries(mv) :
               mv[a].source < mv[b].source =>
                  \A i \in DOMAIN AttachmentBlocks(mv[a]),
                     j \in DOMAIN AttachmentBlocks(mv[b]) :
                     (/\ Inlined(AttachmentBlocks(mv[a])[i])
                      /\ AttachmentOf(mv[b], j).payload <= AttachmentOf(mv[a], i).payload)
                     => AttachmentBlocks(mv[b])[j].kind # "sizeLimit"

\* An older attachment is inlined after a newer one, no larger, was inlined.
C4_Witness ==
    /\ convOutcome.status = "returned"
    /\ Len(convOutcome.messageValues) = 2
    /\ LET old == convOutcome.messageValues[1]
           new == convOutcome.messageValues[2]
       IN  /\ old.source < new.source
           /\ Len(AttachmentBlocks(old)) = 1 /\ Len(AttachmentBlocks(new)) = 1
           /\ AttachmentOf(new, 1).payload <= AttachmentOf(old, 1).payload
           /\ Inlined(AttachmentBlocks(old)[1])
           /\ Inlined(AttachmentBlocks(new)[1])

\* C5 as stated: the per-attachment resolution never propagates an exception
\* to its caller.
C5_NeverPropagates == attOutcome.status # "threw"

\* getAsBuffer or getDataUrl is called: the budget is not used up, the file is
\* a binary, and it is a text file or of a modality the model takes.
FetchReached(call) ==
    /\ call.currentTotalSize < maxTotalPayloadSize
    /\ call.file.type = "file"
    /\ \/ isTextFile(call.file.binaryData.mimeType)
       \/ getMimeTypeModality(call.file.binaryData.mimeType)
              \in call.modelMetadata.inputModalities

\* C5 as amended: the two internal signals (size limit exceeded, unsupported
\* MIME type) never reach the caller, each becomes its placeholder; an error
\* raised by the fetch of the bytes or of the data URL is thrown to the caller.
C5_OnlyFetchErrorsPropagate ==
    attOutcome # Pending =>
        /\ attOutcome.status = "threw" <=> (FetchReached(attCall) /\ ~attCall.fetchOk)
        /\ attOutcome.status = "returned" =>
              /\ Len(attOutcome.blocks) >= 1
              /\ attCall.currentTotalSize >= maxTotalPayloadSize =>
                    attOutcome.blocks = <<SizeLimitPlaceholder(attCall.file, attCall.prefix)>>

\* A fetch that fails, and a call where the budget is used up.
C5_Witness ==
    /\ attOutcome # Pending
    /\ FetchReached(attCall)
    /\ ~attCall.fetchOk
    /\ attOutcome.status = "threw"

\* The entries of the sequence that are hidden from the UI, or those that are
\* not, in their order.
RECURSIVE SelectEntries(_, _)
SelectEntries(seq, hidden) ==
    IF seq = <<>> THEN <<>>
    ELSE (IF Head(seq).hideFromUI = hidden THEN <<Head(seq)>> ELSE <<>>)
         \o SelectEntries(Tail(seq), hidden)

\* The ids of the messages of the history that have content, oldest first.
RECURSIVE IdsWithContent(_)
IdsWithContent(hist) ==
    IF hist = <<>> THEN <<>>
    ELSE (IF Head(hist).content # 0 THEN <<Head(hist).id>> ELSE <<>>)
         \o IdsWithContent(Tail(hist))

\* C30: a call of buildConversationHistory that returns gives one entry for
\* each message of the history that has content, in the order of the history
\* and shown in the UI, each starting with the text of its message; with
\* context files it gives one more entry, the first of the result, of type
\* user and hidden from the UI, made of the blocks of the context files and of
\* at least one block; without context files it gives no hidden entry.
C30_ChronologicalWithHiddenContext ==
    convOutcome.status = "returned" =>
        LET shown == SelectEntries(convOutcome.messageValues, FALSE)
            hidden == SelectEntries(convOutcome.messageValues, TRUE)
        IN  /\ [i \in 1 .. Len(shown) |-> shown[i].source]
                  = IdsWithContent(convCall.history)
            /\ \A i \in 1 .. Len(shown) :
                  /\ Len(shown[i].message) >= 1
                  /\ shown[i].message[1].kind = "content"
            /\ Len(hidden) = IF convCall.contextFiles = <<>> THEN 0 ELSE 1
            /\ Len(hidden) = 1
                  => /\ convOutcome.messageValues[1] = hidden[1]
                     /\ hidden[1].type = "user"
                     /\ hidden[1].source = 0
                     /\ Len(hidden[1].message) >= 1
                     /\ \A j \in 1 .. Len(hidden[1].message) :
                           hidden[1].message[j].kind # "content"

\* Two messages with content and a context file: the hidden entry comes
\* first, then the entry of the older and the entry of the newer message.
C30_Witness ==
    /\ convOutcome.status = "returned"
    /\ Len(convCall.history) = 2
    /\ Len(convCall.contextFiles) = 1
    /\ Len(convOutcome.messageValues) = 3
    /\ convOutcome.messageValues[1].hideFromUI
    /\ convOutcome.messageValues[2].source = 1
    /\ convOutcome.messageValues[3].source = 2

(***************************************************************************)
(* ChatHubService: the stores, the calls and the detached tasks            *)
(***************************************************************************)

Users == {1}
SessionIds == {1}

\* The message ids in use: at most six stored at construction, at most two
\* more per call.
MessageIds == 1 .. (6 + 2 * MaxCalls)

\* The client calling the service, one call at a time; the detached tasks of
\* earlier calls run concurrently with its later calls.
Clients == {1}

\* ChatHubConversationModel: a hosted workflow, a custom agent, or a base model.
ConversationModels ==
    { [provider |-> "n8n", workflowId |-> 1],
      [provider |-> "custom-agent", agentId |-> 1],
      [provider |-> "openai", model |-> 1] }

\* What the prepared workflow's responseMode can be for a provider.
ResponseModes(provider) ==
    IF provider = "n8n" THEN {"responseNodes", "streaming"} ELSE {"streaming"}

Field(rec, name) == IF name \in DOMAIN rec THEN rec[name] ELSE NULL

NoError == [type |-> "none", at |-> "none"]
Error(type, at) == [type |-> type, at |-> at]

\* previousMessage when ensurePreviousMessage returned undefined
NoMessage == [id |-> NULL, status |-> "none", executionId |-> NULL]

\* The local `message` of stopGeneration before getChatMessage has returned.
NoStopMessage == [id |-> NULL, type |-> "none", status |-> "none",
                  executionId |-> NULL, execution |-> NULL]

\* A call not yet made.  replyId is the id the AI message of the reply will get.
\* No input has been given to prepareReplyWorkflow.
NoInput == [message |-> "none", attachments |-> {}]

IdleRequest ==
    [op |-> "none", pc |-> "idle", user |-> NULL, sessionId |-> NULL,
     messageId |-> NULL, replyId |-> NULL, previousMessageId |-> NULL,
     targetId |-> NULL, retryOfMessageId |-> NULL, revisionOfMessageId |-> NULL,
     model |-> [provider |-> "none"],
     processedAttachments |-> {}, responseMode |-> "none",
     previousMessage |-> NoMessage, history |-> <<>>,
     message |-> NoStopMessage, stopResult |-> "none", input |-> NoInput,
     committed |-> FALSE, deleteAttempted |-> FALSE,
     broadcast |-> FALSE, marked |-> FALSE, launched |-> FALSE, resumed |-> FALSE,
     txError |-> NoError, thrown |-> NoError]

\* chatStreamService before any stream of the session: nothing streams, no
\* chunk is buffered, and the first chunk will have sequence number 1.
NoStream == [active |-> FALSE, currentMessageId |-> NULL, chunks |-> <<>>,
             lastSequenceNumber |-> 0, started |-> 0]

IdleService ==
    /\ sessions = <<>>
    /\ dbMessages = <<>>
    /\ attachmentStore = {}
    /\ pushed = {}
    /\ requests = <<>>
    /\ tasks = <<>>
    /\ nextMessageId = 1
    /\ nextExecutionId = 1
    /\ calls = 0
    /\ titleCalls = <<>>
    /\ stopCalls = <<>>
    /\ stream = NoStream
    /\ reconnects = <<>>

\* sessionRepository.getOneById(sessionId, user.id): the session with its messages
\* The session looked up by its id alone, whoever owns it.
getChatSessionOfAnyUser(user, sessionId) ==
    IF sessionId \in DOMAIN sessions
    THEN sessions[sessionId]
    ELSE [ownerId |-> NULL]

getChatSession(user, sessionId) ==
    IF sessionId \in DOMAIN sessions /\ sessions[sessionId].ownerId = user
    THEN sessions[sessionId]
    ELSE [ownerId |-> NULL]

\* session.messages as Object.fromEntries(messages.map((m) => [m.id, m]))
SessionMessages(sessionId) ==
    LET ids == {i \in DOMAIN dbMessages : dbMessages[i].sessionId = sessionId}
    IN  [i \in ids |-> dbMessages[i]]

\* messageRepository.getOneById(messageId, sessionId)
getOneById(messageId, sessionId) ==
    IF messageId \in DOMAIN dbMessages /\ dbMessages[messageId].sessionId = sessionId
    THEN dbMessages[messageId]
    ELSE NoMessage

\* sessionRepository.createChatSession({ id, ownerId, title: 'New Chat', ...model })
NewSession(user, model) ==
    [ownerId |-> user, title |-> "New Chat", provider |-> model.provider,
     model |-> Field(model, "model"), workflowId |-> Field(model, "workflowId"),
     agentId |-> Field(model, "agentId")]

\* messageRepository.createHumanMessage(payload, attachments, user, previousMessageId,
\*                                      model, revisionOfMessageId, trx)
HumanMessage(messageId, sessionId, content, attachments, previousMessageId, revisionOfMessageId) ==
    [id |-> messageId, sessionId |-> sessionId, type |-> "human", content |-> content,
     previousMessageId |-> previousMessageId, retryOfMessageId |-> NULL,
     revisionOfMessageId |-> revisionOfMessageId, status |-> "success",
     executionId |-> NULL, attachments |-> attachments]

\* The ids storeMessageAttachments gives the n attachments of a message.
AttachmentIds(messageId, n) == {<<messageId, i>> : i \in 1 .. n}

\* ensureValidModel throws for this model when `valid` is false: only a hosted
\* workflow or a custom agent is looked up.
ModelRejected(model, valid) == model.provider \in {"n8n", "custom-agent"} /\ ~valid

\* messageRepository.createAIMessage({ id, sessionId, previousMessageId, retryOfMessageId,
\*                                      executionId, status: 'running', ... })
AIMessage(messageId, sessionId, previousMessageId, retryOfMessageId, executionId) ==
    [id |-> messageId, sessionId |-> sessionId, type |-> "ai", content |-> "reply",
     previousMessageId |-> previousMessageId, retryOfMessageId |-> retryOfMessageId,
     revisionOfMessageId |-> NULL, status |-> "running",
     executionId |-> executionId, attachments |-> {}]

\* What the database holds when the service is constructed: nothing, or one
\* session of the user with a human message and the reply to it, which has
\* ended or waits for input.
StoredConversations ==
    { [sessions |-> <<>>, dbMessages |-> <<>>, nextMessageId |-> 1, nextExecutionId |-> 1] }
    \cup
    { [sessions |-> (1 :> [NewSession(1, model) EXCEPT !.title = "generated"]),
       dbMessages |-> (1 :> HumanMessage(1, 1, "hello", {}, NULL, NULL)) @@
                      (2 :> [AIMessage(2, 1, 1, NULL, 1) EXCEPT !.status = status]),
       nextMessageId |-> 3, nextExecutionId |-> 2] :
      model \in {m \in ConversationModels : m.provider # "custom-agent"},
      status \in {"success", "waiting"} }

InitService ==
    \E stored \in StoredConversations :
       /\ sessions = stored.sessions
       /\ dbMessages = stored.dbMessages
       /\ attachmentStore = {}
       /\ pushed = {}
       /\ requests = [c \in Clients |-> IdleRequest]
       /\ tasks = <<>>
       /\ nextMessageId = stored.nextMessageId
       /\ nextExecutionId = stored.nextExecutionId
       /\ calls = 0
       /\ titleCalls = <<>>
       /\ stopCalls = <<>>
       /\ stream = NoStream
       /\ reconnects = <<>>

\* A stored AI message whose execution has ended.
StoredAIMessage(messageId, previousMessageId, retryOfMessageId) ==
    [AIMessage(messageId, 1, previousMessageId, retryOfMessageId, messageId)
        EXCEPT !.status = "success"]

\* A stored message of type system (typeMap knows human, ai and system).
SystemMessage(messageId, previousMessageId) ==
    [HumanMessage(messageId, 1, "note", {}, previousMessageId, NULL)
        EXCEPT !.type = "system"]

\* What the database holds when a message is edited: a session of the user
\* whose second human message has been edited once already, so that the
\* conversation has two branches after the first reply; or a session that
\* ends with a system message.
EditConversations ==
    { [sessions |-> (1 :> [NewSession(1, model) EXCEPT !.title = "generated"]),
       dbMessages |-> (1 :> HumanMessage(1, 1, "hello", {<<1, 1>>}, NULL, NULL)) @@
                      (2 :> StoredAIMessage(2, 1, NULL)) @@
                      (3 :> HumanMessage(3, 1, "more", {}, 2, NULL)) @@
                      (4 :> StoredAIMessage(4, 3, NULL)) @@
                      (5 :> HumanMessage(5, 1, "edited", {}, 2, 3)) @@
                      (6 :> StoredAIMessage(6, 5, NULL)),
       attachmentStore |-> {<<1, 1>>},
       nextMessageId |-> 7, nextExecutionId |-> 7] :
      model \in {m \in ConversationModels : m.provider # "custom-agent"} }
    \cup
    { [sessions |-> (1 :> [NewSession(1, model) EXCEPT !.title = "generated"]),
       dbMessages |-> (1 :> HumanMessage(1, 1, "hello", {}, NULL, NULL)) @@
                      (2 :> StoredAIMessage(2, 1, NULL)) @@
                      (3 :> SystemMessage(3, 2)),
       attachmentStore |-> {},
       nextMessageId |-> 4, nextExecutionId |-> 3] :
      model \in {m \in ConversationModels : m.provider # "custom-agent"} }

\* The service constructed over the stored state `stored`.
ServiceStartedOn(stored) ==
    /\ sessions = stored.sessions
    /\ dbMessages = stored.dbMessages
    /\ attachmentStore = stored.attachmentStore
    /\ pushed = {}
    /\ requests = [c \in Clients |-> IdleRequest]
    /\ tasks = <<>>
    /\ nextMessageId = stored.nextMessageId
    /\ nextExecutionId = stored.nextExecutionId
    /\ calls = 0
    /\ titleCalls = <<>>
    /\ stopCalls = <<>>
    /\ stream = NoStream
    /\ reconnects = <<>>

InitEditService == \E stored \in EditConversations : ServiceStartedOn(stored)

\* What the database holds when a reply is regenerated: a session of the user
\* in which a reply has been retried once and a system message stands between
\* a later reply and the human message before it; or a session without any
\* human message.
RegenerateConversations ==
    { [sessions |-> (1 :> [NewSession(1, model) EXCEPT !.title = "generated"]),
       dbMessages |-> (1 :> HumanMessage(1, 1, "hello", {<<1, 1>>}, NULL, NULL)) @@
                      (2 :> StoredAIMessage(2, 1, NULL)) @@
                      (3 :> SystemMessage(3, 2)) @@
                      (4 :> StoredAIMessage(4, 3, NULL)) @@
                      (5 :> StoredAIMessage(5, 1, 2)),
       attachmentStore |-> {<<1, 1>>},
       nextMessageId |-> 6, nextExecutionId |-> 6] :
      model \in {m \in ConversationModels : m.provider # "custom-agent"} }
    \cup
    { [sessions |-> (1 :> [NewSession(1, model) EXCEPT !.title = "generated"]),
       dbMessages |-> (1 :> SystemMessage(1, NULL)) @@
                      (2 :> StoredAIMessage(2, 1, NULL)),
       attachmentStore |-> {},
       nextMessageId |-> 3, nextExecutionId |-> 3] :
      model \in {m \in ConversationModels : m.provider # "custom-agent"} }

InitRegenerateService ==
    \E stored \in RegenerateConversations : ServiceStartedOn(stored)

\* ensurePreviousMessage with its check left out
ensurePreviousMessageUnchecked(previousMessageId, sessionId) == FALSE

\* ensurePreviousMessage(previousMessageId, sessionId, trx) throws BadRequestError
ensurePreviousMessageThrows(previousMessageId, sessionId) ==
    /\ previousMessageId # NULL
    /\ getOneById(previousMessageId, sessionId).id = NULL

(***************************************************************************)
(* sendHumanMessage                                                        *)
(***************************************************************************)

\* The step of the transaction that an injected fault makes fail.
\* "workflowMissing" is no failure of the transaction: prepareReplyWorkflow
\* returns no workflow and the transaction commits.
TxFaults == {"none", "ensureValidModel", "storeMessageAttachments", "createHumanMessage",
             "prepareReplyWorkflow", "workflowMissing"}

\* The first error the transaction callback of sendHumanMessage raises, in the
\* order of its statements; NoError when it commits.
SendTxError(user, sessionId, model, previousMessageId, fault) ==
    LET create == getChatSession(user, sessionId).ownerId = NULL
    IN  IF create /\ ModelRejected(model, fault # "ensureValidModel")
        THEN Error("BadRequestError", "ensureValidModel")
        ELSE IF create /\ sessionId \in DOMAIN sessions
        THEN Error("QueryFailedError", "createChatSession")
        ELSE IF ensurePreviousMessageThrows(previousMessageId, sessionId)
        THEN Error("BadRequestError", "ensurePreviousMessage")
        ELSE IF fault \in {"storeMessageAttachments", "createHumanMessage",
                           "prepareReplyWorkflow"}
        THEN Error("Error", fault)
        ELSE NoError

\* The steps that fail before storeMessageAttachments has returned.
BeforeStore == {"ensureValidModel", "createChatSession", "ensurePreviousMessage",
                "storeMessageAttachments"}

\* catch (error) { if (processedAttachments.length > 0) ... }, never cleaning up
NoCleanup(processedAttachments) == FALSE

\* catch (error) { if (processedAttachments.length > 0) ... }
NeedsCleanup(processedAttachments) == processedAttachments # {}

\* The catch block letting a failed deleteAttachments replace the error
ThrownAfterFailedCleanup(error, deleteOk) ==
    IF deleteOk THEN error ELSE Error("Error", "deleteAttachments")

\* try { await deleteAttachments(...) } catch { warn }; throw error
ThrownAfterCleanup(error, deleteOk) == error

\* What is written through a transaction that failed staying written.
TransactionKeepingWrites(before, written) == written

\* this.messageRepository.manager.transaction(async (trx) => {...}) when the
\* callback throws: what it wrote through trx is rolled back.
TransactionRolledBack(before, written) == before

\* The call of sendHumanMessage up to the end of its transaction: commit (and
\* the throw that follows a commit without workflow), or rollback with
\* whatever storeMessageAttachments had stored.
SendTransaction(c) ==
    /\ requests[c].pc \in {"idle", "done"}
    /\ calls < MaxCalls
    /\ calls' = calls + 1
    /\ \E user \in Users, sessionId \in SessionIds, model \in ConversationModels,
          previousMessageId \in {NULL} \cup DOMAIN dbMessages \cup {nextMessageId},
          nAttachments \in 0 .. MaxAttachments, fault \in TxFaults :
       \E responseMode \in ResponseModes(model.provider) :
          LET messageId == nextMessageId
              create == getChatSession(user, sessionId).ownerId = NULL
              previousMessage == getOneById(previousMessageId, sessionId)
              msgs == IF create THEN <<>> ELSE SessionMessages(sessionId)
              hist == buildMessageHistory(msgs, previousMessageId)
              error == SendTxError(user, sessionId, model, previousMessageId, fault)
              processed == IF error.at \in BeforeStore THEN {}
                           ELSE AttachmentIds(messageId, nAttachments)
              call == [IdleRequest EXCEPT
                          !.op = "send", !.user = user, !.sessionId = sessionId,
                          !.messageId = messageId, !.previousMessageId = previousMessageId,
                          !.model = model, !.processedAttachments = processed]
          IN  /\ fault = "ensureValidModel" => create /\ model.provider # "openai"
              /\ fault = "storeMessageAttachments" => nAttachments > 0
              /\ attachmentStore' = attachmentStore \cup processed
              /\ IF error = NoError
                 THEN /\ sessions' = IF create
                                     THEN sessions @@ (sessionId :> NewSession(user, model))
                                     ELSE sessions
                      /\ dbMessages' = dbMessages @@
                             (messageId :> HumanMessage(messageId, sessionId, "hello", processed,
                                                        previousMessageId, NULL))
                      /\ nextMessageId' = nextMessageId + 2
                      /\ requests' = [requests EXCEPT ![c] =
                             [call EXCEPT !.pc = IF fault = "workflowMissing" THEN "done"
                                                 ELSE "broadcast",
                                          !.thrown = IF fault = "workflowMissing"
                                                     THEN Error("UnexpectedError", "workflow")
                                                     ELSE NoError,
                                          !.committed = TRUE,
                                          !.replyId = messageId + 1,
                                          !.responseMode = responseMode,
                                          !.previousMessage = previousMessage,
                                          !.history = [i \in 1 .. Len(hist) |-> hist[i].id]]]
                 ELSE /\ sessions' = TransactionRolledBack(sessions,
                             IF create /\ error.at \notin {"ensureValidModel", "createChatSession"}
                             THEN sessions @@ (sessionId :> NewSession(user, model))
                             ELSE sessions)
                      /\ dbMessages' = TransactionRolledBack(dbMessages,
                             IF error.at = "prepareReplyWorkflow"
                             THEN dbMessages @@
                                  (messageId :> HumanMessage(messageId, sessionId, "hello",
                                                             processed, previousMessageId, NULL))
                             ELSE dbMessages)
                      /\ UNCHANGED nextMessageId
                      /\ requests' = [requests EXCEPT ![c] =
                             [call EXCEPT !.txError = error,
                                          !.pc = IF NeedsCleanup(processed) THEN "cleanup"
                                                 ELSE "done",
                                          !.thrown = IF NeedsCleanup(processed) THEN NoError
                                                     ELSE error]]
    /\ UNCHANGED <<pushed, tasks, nextExecutionId>>
    /\ UNCHANGED sideVars
    /\ UNCHANGED pureVars

\* The catch block of sendHumanMessage: delete what was stored, then throw.
SendCleanup(c) ==
    /\ requests[c].op = "send"
    /\ requests[c].pc = "cleanup"
    /\ \E deleteOk \in BOOLEAN :
          /\ attachmentStore' = IF deleteOk
                                THEN attachmentStore \ requests[c].processedAttachments
                                ELSE attachmentStore
          /\ requests' = [requests EXCEPT ![c] =
                 [@ EXCEPT !.deleteAttempted = TRUE,
                           !.thrown = ThrownAfterCleanup(requests[c].txError, deleteOk),
                           !.pc = "done"]]
    /\ UNCHANGED <<sessions, dbMessages, pushed, tasks, nextMessageId, nextExecutionId, calls>>
    /\ UNCHANGED sideVars
    /\ UNCHANGED pureVars

\* sendHumanMessage without its broadcast: the call goes on at once
SendBroadcastSkipped(c) ==
    /\ requests[c].op = "send"
    /\ requests[c].pc = "broadcast"
    /\ requests' = [requests EXCEPT ![c] = [@ EXCEPT !.pc = "afterBroadcast"]]
    /\ UNCHANGED <<sessions, dbMessages, attachmentStore, pushed, tasks, nextMessageId,
                   nextExecutionId, calls>>
    /\ UNCHANGED sideVars
    /\ UNCHANGED pureVars

\* await this.chatStreamService.sendHumanMessage({...})
SendBroadcast(c) ==
    /\ requests[c].op = "send"
    /\ requests[c].pc = "broadcast"
    /\ \E ok \in BOOLEAN :
          IF ok
          THEN /\ pushed' = pushed \cup {[type |-> "humanMessage",
                                          messageId |-> requests[c].messageId]}
               /\ requests' = [requests EXCEPT ![c] =
                      [@ EXCEPT !.broadcast = TRUE, !.pc = "afterBroadcast"]]
          ELSE /\ UNCHANGED pushed
               /\ requests' = [requests EXCEPT ![c] =
                      [@ EXCEPT !.thrown = Error("Error", "chatStreamService.sendHumanMessage"),
                                !.pc = "done"]]
    /\ UNCHANGED <<sessions, dbMessages, attachmentStore, tasks, nextMessageId,
                   nextExecutionId, calls>>
    /\ UNCHANGED sideVars
    /\ UNCHANGED pureVars

\* The resume condition with the check of the message status left out
ShouldResumeAnyStatus(model, responseMode, previousMessage) ==
    /\ model.provider = "n8n"
    /\ responseMode = "responseNodes"
    /\ previousMessage.executionId # NULL

\* model.provider === 'n8n' && workflow.responseMode === 'responseNodes' &&
\* previousMessage?.status === 'waiting' && previousMessage?.executionId
ShouldResume(model, responseMode, previousMessage) ==
    /\ model.provider = "n8n"
    /\ responseMode = "responseNodes"
    /\ previousMessage.status = "waiting"
    /\ previousMessage.executionId # NULL

\* The detached task started by
\* void this.executeChatWorkflowWithCleanup(user, model, workflow, sessionId,
\*     previousMessageId, retryOfMessageId, originalPreviousMessageId, credentials,
\*     humanMessage, processedAttachments)
LaunchTask(req, previousMessageId, retryOfMessageId, originalPreviousMessageId, humanMessage) ==
    [kind |-> "launch", pc |-> "start", sessionId |-> req.sessionId,
     previousMessageId |-> previousMessageId, retryOfMessageId |-> retryOfMessageId,
     originalPreviousMessageId |-> originalPreviousMessageId,
     humanMessage |-> humanMessage, responseMode |-> req.responseMode,
     executionId |-> NULL]

\* The detached task started by
\* void this.chatHubExecutionService.resumeChatExecution(execution, message, sessionId,
\*     user, messageId, model, workflow.responseMode)
ResumeTask(req) ==
    [kind |-> "resume", pc |-> "start", sessionId |-> req.sessionId,
     previousMessageId |-> req.messageId, retryOfMessageId |-> NULL,
     originalPreviousMessageId |-> req.previousMessageId,
     humanMessage |-> "hello", responseMode |-> req.responseMode,
     executionId |-> req.previousMessage.executionId]

\* sendHumanMessage awaiting the execution it starts instead of detaching it:
\* a failure of the execution is thrown to the caller
SendAfterBroadcastAwaited(c) ==
    /\ requests[c].op = "send"
    /\ requests[c].pc = "afterBroadcast"
    /\ \E failed \in BOOLEAN :
          requests' = [requests EXCEPT ![c] =
              [@ EXCEPT !.launched = TRUE, !.pc = "done",
                        !.thrown = IF failed THEN Error("Error", "executeChatWorkflow")
                                   ELSE NoError]]
    /\ tasks' = tasks @@
           (requests[c].replyId :> LaunchTask(requests[c], requests[c].messageId, NULL,
                                              requests[c].previousMessageId, "hello"))
    /\ UNCHANGED <<sessions, dbMessages, attachmentStore, pushed, nextMessageId,
                   nextExecutionId, calls>>
    /\ UNCHANGED sideVars
    /\ UNCHANGED pureVars

\* After the broadcast: look the paused execution up when the previous message
\* waits for input; otherwise start a new execution and return.
SendAfterBroadcast(c) ==
    /\ requests[c].op = "send"
    /\ requests[c].pc = "afterBroadcast"
    /\ LET req == requests[c]
       IN  IF ShouldResume(req.model, req.responseMode, req.previousMessage)
           THEN /\ \E found \in BOOLEAN :
                      requests' = [requests EXCEPT ![c] =
                          IF found
                          THEN [req EXCEPT !.pc = "markSuccess"]
                          ELSE [req EXCEPT !.thrown = Error("OperationalError",
                                                            "findSingleExecution"),
                                           !.pc = "done"]]
                /\ UNCHANGED tasks
           ELSE /\ requests' = [requests EXCEPT ![c] =
                       [req EXCEPT !.launched = TRUE, !.pc = "done"]]
                /\ tasks' = tasks @@
                       (req.replyId :> LaunchTask(req, req.messageId, NULL,
                                                  req.previousMessageId, "hello"))
    /\ UNCHANGED <<sessions, dbMessages, attachmentStore, pushed, nextMessageId,
                   nextExecutionId, calls>>
    /\ UNCHANGED sideVars
    /\ UNCHANGED pureVars

\* The update written as the save of a partial entity: the row loses the
\* relation to its previous message.
updateChatMessageDetaching(messageStore, id, updates) ==
    IF id \notin DOMAIN messageStore THEN messageStore
    ELSE [messageStore EXCEPT ![id] =
             [f \in DOMAIN messageStore[id] |->
                 IF f \in DOMAIN updates THEN updates[f]
                 ELSE IF f = "previousMessageId" THEN NULL
                 ELSE messageStore[id][f]]]

\* messageRepository.updateChatMessage(id, updates): the columns named in the
\* updates are written in the row of the message, the others stay.
updateChatMessage(messageStore, id, updates) ==
    IF id \notin DOMAIN messageStore THEN messageStore
    ELSE [messageStore EXCEPT ![id] =
             [f \in DOMAIN messageStore[id] |->
                 IF f \in DOMAIN updates THEN updates[f] ELSE messageStore[id][f]]]

\* await this.messageRepository.updateChatMessage(previousMessage.id, { status: 'success' })
SendMarkSuccess(c) ==
    /\ requests[c].op = "send"
    /\ requests[c].pc = "markSuccess"
    /\ LET id == requests[c].previousMessage.id
       IN  \E ok \in BOOLEAN :
              IF ok
              THEN /\ dbMessages' = updateChatMessage(dbMessages, id, [status |-> "success"])
                   /\ requests' = [requests EXCEPT ![c] =
                          [@ EXCEPT !.marked = TRUE, !.pc = "resume"]]
              ELSE /\ UNCHANGED dbMessages
                   /\ requests' = [requests EXCEPT ![c] =
                          [@ EXCEPT !.thrown = Error("Error", "updateChatMessage"),
                                    !.pc = "done"]]
    /\ UNCHANGED <<sessions, attachmentStore, pushed, tasks, nextMessageId, nextExecutionId, calls>>
    /\ UNCHANGED sideVars
    /\ UNCHANGED pureVars

\* void this.chatHubExecutionService.resumeChatExecution(...); return
SendResume(c) ==
    /\ requests[c].op = "send"
    /\ requests[c].pc = "resume"
    /\ requests' = [requests EXCEPT ![c] = [@ EXCEPT !.resumed = TRUE, !.pc = "done"]]
    /\ tasks' = tasks @@ (requests[c].replyId :> ResumeTask(requests[c]))
    /\ UNCHANGED <<sessions, dbMessages, attachmentStore, pushed, nextMessageId,
                   nextExecutionId, calls>>
    /\ UNCHANGED sideVars
    /\ UNCHANGED pureVars

(***************************************************************************)
(* editMessage                                                             *)
(***************************************************************************)

EditFaults == {"none", "storeMessageAttachments", "createHumanMessage",
               "prepareReplyWorkflow", "updateChatMessage"}

\* editMessage without the check of the provider of an AI edit
EditTxErrorAnyProvider(user, sessionId, editId, model, fault) ==
    LET messageToEdit == getOneById(editId, sessionId)
    IN  IF getChatSession(user, sessionId).ownerId = NULL
        THEN Error("NotFoundError", "getChatSession")
        ELSE IF messageToEdit.id = NULL
        THEN Error("NotFoundError", "getChatMessage")
        ELSE IF messageToEdit.type = "ai"
        THEN IF FALSE
             THEN Error("BadRequestError", "editMessage")
             ELSE IF fault = "updateChatMessage" THEN Error("Error", fault) ELSE NoError
        ELSE IF messageToEdit.type = "human"
        THEN IF fault \in {"storeMessageAttachments", "createHumanMessage",
                           "prepareReplyWorkflow"}
             THEN Error("Error", fault)
             ELSE NoError
        ELSE Error("BadRequestError", "editMessage")

\* editMessage without the rejection of the other message types
EditTxErrorAnyType(user, sessionId, editId, model, fault) ==
    LET messageToEdit == getOneById(editId, sessionId)
    IN  IF getChatSession(user, sessionId).ownerId = NULL
        THEN Error("NotFoundError", "getChatSession")
        ELSE IF messageToEdit.id = NULL
        THEN Error("NotFoundError", "getChatMessage")
        ELSE IF messageToEdit.type = "ai"
        THEN IF model.provider = "n8n"
             THEN Error("BadRequestError", "editMessage")
             ELSE IF fault = "updateChatMessage" THEN Error("Error", fault) ELSE NoError
        ELSE IF messageToEdit.type = "human"
        THEN IF fault \in {"storeMessageAttachments", "createHumanMessage",
                           "prepareReplyWorkflow"}
             THEN Error("Error", fault)
             ELSE NoError
        ELSE NoError

\* The first error the transaction callback of editMessage raises; NoError
\* when it commits.
EditTxError(user, sessionId, editId, model, fault) ==
    LET messageToEdit == getOneById(editId, sessionId)
    IN  IF getChatSession(user, sessionId).ownerId = NULL
        THEN Error("NotFoundError", "getChatSession")
        ELSE IF messageToEdit.id = NULL
        THEN Error("NotFoundError", "getChatMessage")
        ELSE IF messageToEdit.type = "ai"
        THEN IF model.provider = "n8n"
             THEN Error("BadRequestError", "editMessage")
             ELSE IF fault = "updateChatMessage" THEN Error("Error", fault) ELSE NoError
        ELSE IF messageToEdit.type = "human"
        THEN IF fault \in {"storeMessageAttachments", "createHumanMessage",
                           "prepareReplyWorkflow"}
             THEN Error("Error", fault)
             ELSE NoError
        ELSE Error("BadRequestError", "editMessage")

\* payload.keepAttachmentIndices.flatMap((index) => originalAttachments[index] ...)
KeptAttachments(originalAttachments, keepAttachmentIndices) ==
    {a \in originalAttachments : a[2] \in keepAttachmentIndices}

\* The history of an edit taken up to the edited message itself.
EditHistoryEndAtEdited(messageToEdit) == messageToEdit.id

\* this.buildMessageHistory(messages, messageToEdit.previousMessageId): where
\* the history of an edit ends
EditHistoryEnd(messageToEdit) == messageToEdit.previousMessageId

\* The revision chained to the edited message, whatever that one revises.
RevisionOfChained(messageToEdit) == messageToEdit.id

\* messageToEdit.revisionOfMessageId ?? messageToEdit.id
RevisionOf(messageToEdit) ==
    IF messageToEdit.revisionOfMessageId # NULL THEN messageToEdit.revisionOfMessageId
    ELSE messageToEdit.id

\* The call of editMessage up to the end of its transaction.
EditTransaction(c) ==
    /\ requests[c].pc \in {"idle", "done"}
    /\ calls < MaxCalls
    /\ calls' = calls + 1
    /\ \E user \in Users, sessionId \in SessionIds, model \in ConversationModels,
          editId \in DOMAIN dbMessages \cup {nextMessageId},
          nAttachments \in 0 .. MaxAttachments,
          keepAttachmentIndices \in {{}, 1 .. MaxAttachments + 1},
          fault \in EditFaults :
       \E responseMode \in ResponseModes(model.provider) :
          LET messageId == nextMessageId
              messageToEdit == getOneById(editId, sessionId)
              human == /\ getChatSession(user, sessionId).ownerId # NULL
                       /\ messageToEdit.id # NULL
                       /\ messageToEdit.type = "human"
              hist == buildMessageHistory(SessionMessages(sessionId),
                                          EditHistoryEnd(messageToEdit))
              error == EditTxError(user, sessionId, editId, model, fault)
              stored == IF human /\ fault # "storeMessageAttachments"
                        THEN AttachmentIds(messageId, nAttachments) ELSE {}
              attachments == IF human
                             THEN KeptAttachments(messageToEdit.attachments,
                                                  keepAttachmentIndices) \cup stored
                             ELSE {}
              call == [IdleRequest EXCEPT
                          !.op = "edit", !.user = user, !.sessionId = sessionId,
                          !.messageId = messageId, !.targetId = editId, !.model = model,
                          !.processedAttachments = stored]
          IN  /\ fault # "none" => error.at = fault
              /\ fault = "storeMessageAttachments" => nAttachments > 0
              /\ ~human => keepAttachmentIndices = {} /\ responseMode = "streaming"
              /\ attachmentStore' = attachmentStore \cup stored
              /\ IF error # NoError
                 THEN /\ UNCHANGED <<dbMessages, nextMessageId>>
                      /\ requests' = [requests EXCEPT ![c] =
                             [call EXCEPT !.txError = error,
                                          !.pc = IF NeedsCleanup(stored) THEN "cleanup"
                                                 ELSE "done",
                                          !.thrown = IF NeedsCleanup(stored) THEN NoError
                                                     ELSE error]]
                 ELSE IF human
                 THEN /\ dbMessages' = dbMessages @@
                             (messageId :> HumanMessage(messageId, sessionId, "edited",
                                                        attachments,
                                                        messageToEdit.previousMessageId,
                                                        RevisionOf(messageToEdit)))
                      /\ nextMessageId' = nextMessageId + 2
                      /\ requests' = [requests EXCEPT ![c] =
                             [call EXCEPT !.pc = "broadcast", !.committed = TRUE,
                                          !.replyId = messageId + 1,
                                          !.responseMode = responseMode,
                                          !.previousMessageId = messageToEdit.previousMessageId,
                                          !.history = [i \in 1 .. Len(hist) |-> hist[i].id],
                                          !.revisionOfMessageId = RevisionOf(messageToEdit)]]
                 ELSE /\ dbMessages' = updateChatMessage(dbMessages, editId,
                                                         [content |-> "edited"])
                      /\ UNCHANGED nextMessageId
                      /\ requests' = [requests EXCEPT ![c] =
                             [call EXCEPT !.pc = "done", !.committed = TRUE]]
    /\ UNCHANGED <<sessions, pushed, tasks, nextExecutionId>>
    /\ UNCHANGED sideVars
    /\ UNCHANGED pureVars

\* The catch block deleting the combined attachments of the failed revision:
\* those kept from the original message and those this edit stored.
EditCleanupOfCombined(c) ==
    /\ requests[c].op = "edit"
    /\ requests[c].pc = "cleanup"
    /\ \E deleteOk \in BOOLEAN :
          /\ attachmentStore' =
                IF deleteOk
                THEN attachmentStore \
                        (requests[c].processedAttachments \cup
                         dbMessages[requests[c].targetId].attachments)
                ELSE attachmentStore
          /\ requests' = [requests EXCEPT ![c] =
                 [@ EXCEPT !.deleteAttempted = TRUE,
                           !.thrown = ThrownAfterCleanup(requests[c].txError, deleteOk),
                           !.pc = "done"]]
    /\ UNCHANGED <<sessions, dbMessages, pushed, tasks, nextMessageId, nextExecutionId, calls>>
    /\ UNCHANGED sideVars
    /\ UNCHANGED pureVars

\* The catch block of editMessage: delete what this edit stored, then throw.
EditCleanup(c) ==
    /\ requests[c].op = "edit"
    /\ requests[c].pc = "cleanup"
    /\ \E deleteOk \in BOOLEAN :
          /\ attachmentStore' = IF deleteOk
                                THEN attachmentStore \ requests[c].processedAttachments
                                ELSE attachmentStore
          /\ requests' = [requests EXCEPT ![c] =
                 [@ EXCEPT !.deleteAttempted = TRUE,
                           !.thrown = ThrownAfterCleanup(requests[c].txError, deleteOk),
                           !.pc = "done"]]
    /\ UNCHANGED <<sessions, dbMessages, pushed, tasks, nextMessageId, nextExecutionId, calls>>
    /\ UNCHANGED sideVars
    /\ UNCHANGED pureVars

\* await this.chatStreamService.sendMessageEdit({ ..., revisionOfMessageId: editId, messageId })
EditBroadcast(c) ==
    /\ requests[c].op = "edit"
    /\ requests[c].pc = "broadcast"
    /\ \E ok \in BOOLEAN :
          IF ok
          THEN /\ pushed' = pushed \cup {[type |-> "messageEdit",
                                          messageId |-> requests[c].messageId,
                                          revisionOfMessageId |-> requests[c].targetId]}
               /\ requests' = [requests EXCEPT ![c] =
                      [@ EXCEPT !.broadcast = TRUE, !.pc = "launch"]]
          ELSE /\ UNCHANGED pushed
               /\ requests' = [requests EXCEPT ![c] =
                      [@ EXCEPT !.thrown = Error("Error", "chatStreamService.sendMessageEdit"),
                                !.pc = "done"]]
    /\ UNCHANGED <<sessions, dbMessages, attachmentStore, tasks, nextMessageId,
                   nextExecutionId, calls>>
    /\ UNCHANGED sideVars
    /\ UNCHANGED pureVars

\* void this.executeChatWorkflowWithCleanup(user, model, workflow, sessionId, messageId,
\*                                          null, null, {}, '', [])
EditLaunch(c) ==
    /\ requests[c].op = "edit"
    /\ requests[c].pc = "launch"
    /\ requests' = [requests EXCEPT ![c] = [@ EXCEPT !.launched = TRUE, !.pc = "done"]]
    /\ tasks' = tasks @@
           (requests[c].replyId :> LaunchTask(requests[c], requests[c].messageId,
                                              NULL, NULL, ""))
    /\ UNCHANGED <<sessions, dbMessages, attachmentStore, pushed, nextMessageId,
                   nextExecutionId, calls>>
    /\ UNCHANGED sideVars
    /\ UNCHANGED pureVars

(***************************************************************************)
(* regenerateAIMessage                                                     *)
(***************************************************************************)

\* The last message of history taken whatever its type: its index, 0 if
\* history is empty.
LastIndex(hist, i) == i

\* history.filter((m) => m.type === 'human').pop(): its index in history, 0 if none
RECURSIVE LastHumanIndex(_, _)
LastHumanIndex(hist, i) ==
    IF i = 0 THEN 0
    ELSE IF hist[i].type = "human" THEN i
    ELSE LastHumanIndex(hist, i - 1)

\* history.splice(start) left out: the history stays whole
SpliceNothing(hist, start) == hist

\* history.splice(start): what is left of history, its first `start` elements
Splice(hist, start) == SubSeq(hist, 1, start)

\* The retry chained to the retried message, whatever that one retries.
RetryOfChained(messageToRetry) == messageToRetry.id

\* messageToRetry.retryOfMessageId ?? messageToRetry.id
RetryOf(messageToRetry) ==
    IF messageToRetry.retryOfMessageId # NULL THEN messageToRetry.retryOfMessageId
    ELSE messageToRetry.id

\* The first error the transaction callback of regenerateAIMessage raises;
\* NoError when it commits.
RegenerateTxError(user, sessionId, retryId, fault) ==
    LET messageToRetry == getOneById(retryId, sessionId)
        hist == buildMessageHistory(SessionMessages(sessionId),
                                    messageToRetry.previousMessageId)
    IN  IF getChatSession(user, sessionId).ownerId = NULL
        THEN Error("NotFoundError", "getChatSession")
        ELSE IF messageToRetry.id = NULL
        THEN Error("NotFoundError", "getChatMessage")
        ELSE IF messageToRetry.type # "ai"
        THEN Error("BadRequestError", "messageToRetry.type")
        ELSE IF LastHumanIndex(hist, Len(hist)) = 0
        THEN Error("BadRequestError", "lastHumanMessage")
        ELSE IF fault = "prepareReplyWorkflow"
        THEN Error("Error", fault)
        ELSE NoError

\* The call of regenerateAIMessage up to the end of its transaction, which
\* writes nothing.
RegenerateTransaction(c) ==
    /\ requests[c].pc \in {"idle", "done"}
    /\ calls < MaxCalls
    /\ calls' = calls + 1
    /\ \E user \in Users, sessionId \in SessionIds, model \in ConversationModels,
          retryId \in DOMAIN dbMessages \cup {nextMessageId},
          fault \in {"none", "prepareReplyWorkflow"} :
       \E responseMode \in ResponseModes(model.provider) :
          LET messageToRetry == getOneById(retryId, sessionId)
              hist == buildMessageHistory(SessionMessages(sessionId),
                                          messageToRetry.previousMessageId)
              lastHumanMessageIndex == LastHumanIndex(hist, Len(hist))
              lastHumanMessage == hist[lastHumanMessageIndex]
              spliced == Splice(hist, lastHumanMessageIndex)
              error == RegenerateTxError(user, sessionId, retryId, fault)
              call == [IdleRequest EXCEPT
                          !.op = "regenerate", !.user = user, !.sessionId = sessionId,
                          !.targetId = retryId, !.model = model]
          IN  /\ fault # "none" => error.at = fault
              /\ IF error # NoError
                 THEN /\ UNCHANGED nextMessageId
                      /\ requests' = [requests EXCEPT ![c] =
                             [call EXCEPT !.txError = error, !.thrown = error,
                                          !.pc = "done"]]
                 ELSE /\ nextMessageId' = nextMessageId + 1
                      /\ requests' = [requests EXCEPT ![c] =
                             [call EXCEPT !.pc = "launch", !.committed = TRUE,
                                          !.replyId = nextMessageId,
                                          !.responseMode = responseMode,
                                          !.previousMessageId = lastHumanMessage.id,
                                          !.history = [i \in 1 .. Len(spliced) |->
                                                          spliced[i].id],
                                          !.input =
                                             [message |-> lastHumanMessage.content,
                                              attachments |-> lastHumanMessage.attachments],
                                          !.retryOfMessageId = RetryOf(messageToRetry)]]
    /\ UNCHANGED <<sessions, dbMessages, attachmentStore, pushed, tasks, nextExecutionId>>
    /\ UNCHANGED sideVars
    /\ UNCHANGED pureVars

\* void this.executeChatWorkflowWithCleanup(user, model, workflow, sessionId,
\*     previousMessageId, retryOfMessageId, null, {}, '', [])
RegenerateLaunch(c) ==
    /\ requests[c].op = "regenerate"
    /\ requests[c].pc = "launch"
    /\ requests' = [requests EXCEPT ![c] = [@ EXCEPT !.launched = TRUE, !.pc = "done"]]
    /\ tasks' = tasks @@
           (requests[c].replyId :> LaunchTask(requests[c], requests[c].previousMessageId,
                                              requests[c].retryOfMessageId, NULL, ""))
    /\ UNCHANGED <<sessions, dbMessages, attachmentStore, pushed, nextMessageId,
                   nextExecutionId, calls>>
    /\ UNCHANGED sideVars
    /\ UNCHANGED pureVars

(***************************************************************************)
(* updateSession                                                           *)
(*                                                                         *)
(* Of the columns of a session the model carries the owner, the title and  *)
(* the agent binding; agentName, credentialId and tools are written by     *)
(* updateSession next to them and read by nothing modelled here.           *)
(***************************************************************************)

\* The users other than the caller, owning sessions the caller cannot see.
OtherUsers == {2}

\* sessionUpdates for updates.agent with the binding of the session before it
\* left in place: only the provider and the field of the new provider are set.
AgentUpdatesWithoutClearing(model) ==
    IF model.provider = "n8n"
    THEN [provider |-> model.provider, workflowId |-> model.workflowId]
    ELSE IF model.provider = "custom-agent"
    THEN [provider |-> model.provider, agentId |-> model.agentId]
    ELSE [provider |-> model.provider, model |-> model.model]

\* if (updates.agent) { ... }: the provider, and model, agentId and workflowId
\* set to null before the one of the new provider is set.
AgentUpdates(model) ==
    [provider |-> model.provider,
     model |-> IF model.provider \notin {"n8n", "custom-agent"} THEN model.model ELSE NULL,
     agentId |-> IF model.provider = "custom-agent" THEN model.agentId ELSE NULL,
     workflowId |-> IF model.provider = "n8n" THEN model.workflowId ELSE NULL]

\* if (updates.title !== undefined) sessionUpdates.title = updates.title
TitleUpdates(title) == IF title = "undefined" THEN <<>> ELSE [title |-> title]

\* sessionRepository.updateChatSession(sessionId, sessionUpdates): the columns
\* named in the updates are written, the others stay.
updateChatSession(session, sessionUpdates) ==
    [f \in DOMAIN session |->
        IF f \in DOMAIN sessionUpdates THEN sessionUpdates[f] ELSE session[f]]

\* The first error updateSession raises; NoError when the update is written.
UpdateError(user, sessionId, agent, valid, written) ==
    IF getChatSession(user, sessionId).ownerId = NULL
    THEN Error("NotFoundError", "ensureConversation")
    ELSE IF agent.provider # "none" /\ ModelRejected(agent, valid)
    THEN Error("BadRequestError", "ensureValidModel")
    ELSE IF ~written
    THEN Error("QueryFailedError", "updateChatSession")
    ELSE NoError

\* One call of updateSession, with or without a new agent and a new title.
UpdateSession(c) ==
    /\ requests[c].pc \in {"idle", "done"}
    /\ calls < MaxCalls
    /\ calls' = calls + 1
    /\ \E user \in Users, sessionId \in SessionIds,
          agent \in {[provider |-> "none"]} \cup ConversationModels,
          title \in {"undefined", "renamed"}, valid \in BOOLEAN, written \in BOOLEAN :
          LET error == UpdateError(user, sessionId, agent, valid, written)
              sessionUpdates ==
                  TitleUpdates(title) @@
                  (IF agent.provider # "none" THEN AgentUpdates(agent) ELSE <<>>)
          IN  /\ ~valid => agent.provider \in {"n8n", "custom-agent"}
              /\ sessions' = IF error = NoError
                              THEN [sessions EXCEPT ![sessionId] =
                                       updateChatSession(@, sessionUpdates)]
                              ELSE sessions
              /\ requests' = [requests EXCEPT ![c] =
                     [IdleRequest EXCEPT !.op = "updateSession", !.pc = "done",
                                         !.user = user, !.sessionId = sessionId,
                                         !.model = agent, !.thrown = error]]
    /\ UNCHANGED <<dbMessages, attachmentStore, pushed, tasks, nextMessageId,
                   nextExecutionId>>
    /\ UNCHANGED sideVars
    /\ UNCHANGED pureVars

\* What deleteSession throws: the NotFoundError of ensureConversation, or the
\* failure of one of its two deletions; NoError when the transaction commits.
DeleteFaults == {"none", "deleteAllMessageAttachmentsBySessionId", "deleteChatHubSession"}

DeleteError(user, sessionId, fault) ==
    IF getChatSession(user, sessionId).ownerId = NULL
    THEN Error("NotFoundError", "ensureConversation")
    ELSE IF fault # "none"
    THEN Error("Error", fault)
    ELSE NoError

\* The attachments of the messages of the session.
SessionAttachments(sessionId) ==
    UNION {dbMessages[id].attachments :
              id \in {i \in DOMAIN dbMessages : dbMessages[i].sessionId = sessionId}}

\* One call of deleteSession: in one transaction the session is checked, the
\* attachments of its messages are deleted and the session is deleted, its
\* messages with it; a failure rolls the transaction back.
DeleteSession(c) ==
    /\ requests[c].pc \in {"idle", "done"}
    /\ calls < MaxCalls
    /\ calls' = calls + 1
    /\ \E user \in Users, sessionId \in SessionIds, fault \in DeleteFaults :
          LET error == DeleteError(user, sessionId, fault)
              kept == {i \in DOMAIN dbMessages : dbMessages[i].sessionId # sessionId}
          IN  /\ fault # "none" => error.at = fault
              /\ IF error = NoError
                 THEN /\ attachmentStore' = attachmentStore \ SessionAttachments(sessionId)
                      /\ sessions' = [id \in DOMAIN sessions \ {sessionId} |-> sessions[id]]
                      /\ dbMessages' = [i \in kept |-> dbMessages[i]]
                 ELSE UNCHANGED <<sessions, dbMessages, attachmentStore>>
              /\ requests' = [requests EXCEPT ![c] =
                     [IdleRequest EXCEPT !.op = "deleteSession", !.pc = "done",
                                         !.user = user, !.sessionId = sessionId,
                                         !.committed = (error = NoError),
                                         !.thrown = error]]
    /\ UNCHANGED <<pushed, tasks, nextMessageId, nextExecutionId>>
    /\ UNCHANGED sideVars
    /\ UNCHANGED pureVars

\* What the database holds when a user calls for a session by its id: the
\* session, with a human message that has an attachment and a reply whose
\* execution runs, belongs to the user or to another user; or there is no
\* session at all.
OwnershipConversations ==
    { [sessions |-> (1 :> [NewSession(owner, model) EXCEPT !.title = "generated"]),
       dbMessages |-> (1 :> HumanMessage(1, 1, "hello", {<<1, 1>>}, NULL, NULL)) @@
                      (2 :> [StoredAIMessage(2, 1, NULL) EXCEPT !.status = "running"]),
       attachmentStore |-> {<<1, 1>>},
       nextMessageId |-> 3, nextExecutionId |-> 3] :
      owner \in Users \cup OtherUsers,
      model \in {m \in ConversationModels : m.provider # "custom-agent"} }
    \cup
    { [sessions |-> <<>>, dbMessages |-> <<>>, attachmentStore |-> {},
       nextMessageId |-> 1, nextExecutionId |-> 1] }

InitOwnershipService == \E stored \in OwnershipConversations : ServiceStartedOn(stored)

\* What the database holds when the service is constructed, a session under
\* the id the caller will use that belongs to another user included.
SessionConversations ==
    StoredConversations
    \cup
    { [sessions |-> (1 :> NewSession(owner, model)),
       dbMessages |-> (1 :> HumanMessage(1, 1, "hello", {}, NULL, NULL)),
       nextMessageId |-> 2, nextExecutionId |-> 1] :
      owner \in OtherUsers, model \in ConversationModels }

InitSessionService ==
    \E stored \in SessionConversations :
       ServiceStartedOn([sessions |-> stored.sessions, dbMessages |-> stored.dbMessages,
                         attachmentStore |-> {},
                         nextMessageId |-> stored.nextMessageId,
                         nextExecutionId |-> stored.nextExecutionId])

(***************************************************************************)
(* stopGeneration                                                          *)
(***************************************************************************)

\* getChatMessage(sessionId, messageId, ['execution', 'execution.workflow']): the
\* message with its execution, which is null when the message has none or the
\* record of the execution is gone.
MessageWithExecution(messageId, sessionId, recordFound) ==
    LET stored == getOneById(messageId, sessionId)
    IN  IF stored.id = NULL THEN NoStopMessage
        ELSE [id |-> stored.id, type |-> stored.type, status |-> stored.status,
              executionId |-> stored.executionId,
              execution |-> IF recordFound THEN stored.executionId ELSE NULL]

\* stopGeneration without the check of the status
StopErrorAnyStatus(user, sessionId, message) ==
    IF getChatSession(user, sessionId).ownerId = NULL
    THEN Error("NotFoundError", "ensureConversation")
    ELSE IF message.id = NULL
    THEN Error("NotFoundError", "getChatMessage")
    ELSE IF message.type # "ai"
    THEN Error("BadRequestError", "message.type")
    ELSE IF message.executionId = NULL \/ message.execution = NULL
    THEN Error("BadRequestError", "message.execution")
    ELSE NoError

\* What stopGeneration throws before it calls the execution service; NoError
\* when it goes on to the call.
StopError(user, sessionId, message) ==
    IF getChatSession(user, sessionId).ownerId = NULL
    THEN Error("NotFoundError", "ensureConversation")
    ELSE IF message.id = NULL
    THEN Error("NotFoundError", "getChatMessage")
    ELSE IF message.type # "ai"
    THEN Error("BadRequestError", "message.type")
    ELSE IF message.executionId = NULL \/ message.execution = NULL
    THEN Error("BadRequestError", "message.execution")
    ELSE IF message.status # "running"
    THEN Error("BadRequestError", "message.status")
    ELSE NoError

\* stopGeneration up to its call of chatHubExecutionService.stop: the session
\* and the message are read and checked, and the stop call is made.
StopCheck(c) ==
    /\ requests[c].pc \in {"idle", "done"}
    /\ calls < MaxCalls
    /\ calls' = calls + 1
    /\ \E user \in Users, sessionId \in SessionIds,
          messageId \in DOMAIN dbMessages \cup {nextMessageId},
          recordFound \in BOOLEAN :
          LET message == MessageWithExecution(messageId, sessionId, recordFound)
              error == StopError(user, sessionId, message)
              call == [IdleRequest EXCEPT
                          !.op = "stop", !.user = user, !.sessionId = sessionId,
                          !.targetId = messageId, !.message = message]
          IN  /\ ~recordFound => message.executionId # NULL
              /\ IF error # NoError
                 THEN /\ requests' = [requests EXCEPT ![c] =
                             [call EXCEPT !.thrown = error, !.pc = "done"]]
                      /\ UNCHANGED stopCalls
                 ELSE /\ requests' = [requests EXCEPT ![c] = [call EXCEPT !.pc = "stop"]]
                      /\ stopCalls' = Append(stopCalls, message.execution)
    /\ UNCHANGED <<sessions, dbMessages, attachmentStore, pushed, tasks, nextMessageId,
                   nextExecutionId>>
    /\ UNCHANGED <<titleCalls, stream, reconnects>>
    /\ UNCHANGED pureVars

\* stopGeneration going on to the status whatever the stop call returned
AfterStopCallIgnoringFailure(ok) == "update"

\* await this.chatHubExecutionService.stop(...): where stopGeneration goes on
\* when the call has returned, and where it ends when the call has thrown
AfterStopCall(ok) == IF ok THEN "update" ELSE "done"

\* The stop call returns or throws.
StopReturns(c) ==
    /\ requests[c].op = "stop"
    /\ requests[c].pc = "stop"
    /\ \E ok \in BOOLEAN :
          requests' = [requests EXCEPT ![c] =
              [@ EXCEPT !.stopResult = IF ok THEN "ok" ELSE "failed",
                        !.thrown = IF AfterStopCall(ok) = "done"
                                   THEN Error("Error", "chatHubExecutionService.stop")
                                   ELSE NoError,
                        !.pc = AfterStopCall(ok)]]
    /\ UNCHANGED <<sessions, dbMessages, attachmentStore, pushed, tasks, nextMessageId,
                   nextExecutionId, calls>>
    /\ UNCHANGED sideVars
    /\ UNCHANGED pureVars

\* await this.messageRepository.updateChatMessage(messageId, { status: 'cancelled' })
StopMarkCancelled(c) ==
    /\ requests[c].op = "stop"
    /\ requests[c].pc = "update"
    /\ \E ok \in BOOLEAN :
          IF ok
          THEN /\ dbMessages' = updateChatMessage(dbMessages, requests[c].targetId,
                                                   [status |-> "cancelled"])
               /\ requests' = [requests EXCEPT ![c] = [@ EXCEPT !.pc = "done"]]
          ELSE /\ UNCHANGED dbMessages
               /\ requests' = [requests EXCEPT ![c] =
                      [@ EXCEPT !.thrown = Error("Error", "updateChatMessage"),
                                !.pc = "done"]]
    /\ UNCHANGED <<sessions, attachmentStore, pushed, tasks, nextMessageId,
                   nextExecutionId, calls>>
    /\ UNCHANGED sideVars
    /\ UNCHANGED pureVars

\* The statuses of an AI message.
Statuses == {"pending", "running", "success", "error", "cancelled", "waiting"}

\* The task of the reply to the first message of the session, just launched.
FirstReplyTask(responseMode) ==
    LaunchTask([sessionId |-> 1, responseMode |-> responseMode], 1, NULL, NULL, "hello")

\* What the database and the service hold when a generation is stopped: a
\* session of the user with its first human message and either the task that
\* is about to write the reply, or the reply in one of the statuses in which
\* no execution runs, with its execution or, if pending, without one.
StopConversations ==
    { [model |-> model,
       dbMessages |-> (1 :> HumanMessage(1, 1, "hello", {}, NULL, NULL)),
       tasks |-> (2 :> FirstReplyTask(responseMode)),
       nextExecutionId |-> 1] :
      model \in {m \in ConversationModels : m.provider # "custom-agent"},
      responseMode \in {"responseNodes", "streaming"} }
    \cup
    { [model |-> model,
       dbMessages |-> (1 :> HumanMessage(1, 1, "hello", {}, NULL, NULL)) @@
                      (2 :> [AIMessage(2, 1, 1, NULL, executionId)
                                EXCEPT !.status = status]),
       tasks |-> <<>>,
       nextExecutionId |-> 2] :
      model \in {m \in ConversationModels : m.provider # "custom-agent"},
      status \in Statuses \ {"running"}, executionId \in {NULL, 1} }

\* What the database and the service hold when calls of all kinds meet: a
\* session of the user whose second human message has been edited, so that the
\* conversation has two branches after the first reply, which waits for
\* input: one ending with the answer to it that failed to resume it, the other
\* with a reply whose execution runs and does not end while the calls are made.
BranchedConversations ==
    { [sessions |-> (1 :> [NewSession(1, model) EXCEPT !.title = "generated"]),
       dbMessages |-> (1 :> HumanMessage(1, 1, "hello", {}, NULL, NULL)) @@
                      (2 :> [StoredAIMessage(2, 1, NULL) EXCEPT !.status = "waiting"]) @@
                      (3 :> HumanMessage(3, 1, "more", {}, 2, NULL)) @@
                      (4 :> HumanMessage(4, 1, "edited", {}, 2, 3)) @@
                      (5 :> [StoredAIMessage(5, 4, NULL) EXCEPT !.status = "running"]),
       tasks |-> <<>>,
       nextMessageId |-> 6, nextExecutionId |-> 6] :
      model \in {m \in ConversationModels : m.provider = "n8n"} }

InitBranchedService ==
    \E stored \in BranchedConversations :
       /\ sessions = stored.sessions
       /\ dbMessages = stored.dbMessages
       /\ attachmentStore = {}
       /\ pushed = {}
       /\ requests = [c \in Clients |-> IdleRequest]
       /\ tasks = stored.tasks
       /\ nextMessageId = stored.nextMessageId
       /\ nextExecutionId = stored.nextExecutionId
       /\ calls = 0
       /\ titleCalls = <<>>
       /\ stopCalls = <<>>
       /\ stream = NoStream
       /\ reconnects = <<>>

\* The clients whose calls run at the same time.
RaceClients == {1, 2}

\* What the database holds when two clients answer the same question: a
\* session of the user bound to a hosted workflow, with its first human
\* message and the reply to it, whose execution is paused and waits for input.
RaceConversations ==
    { [sessions |-> (1 :> [NewSession(1, model) EXCEPT !.title = "generated"]),
       dbMessages |-> (1 :> HumanMessage(1, 1, "hello", {}, NULL, NULL)) @@
                      (2 :> [StoredAIMessage(2, 1, NULL) EXCEPT !.status = "waiting"])] :
      model \in {m \in ConversationModels : m.provider = "n8n"} }

\* Each of the clients has one call to make.
InitRaceService ==
    \E stored \in RaceConversations :
       /\ sessions = stored.sessions
       /\ dbMessages = stored.dbMessages
       /\ attachmentStore = {}
       /\ pushed = {}
       /\ requests = [c \in RaceClients |-> IdleRequest]
       /\ tasks = <<>>
       /\ nextMessageId = 3
       /\ nextExecutionId = 3
       /\ calls = MaxCalls - Cardinality(RaceClients)
       /\ titleCalls = <<>>
       /\ stopCalls = <<>>
       /\ stream = NoStream
       /\ reconnects = <<>>

InitStopService ==
    \E stored \in {st \in StopConversations :
                       /\ 2 \in DOMAIN st.dbMessages /\ st.dbMessages[2].executionId = NULL
                             => st.dbMessages[2].status = "pending"
                       /\ 2 \in DOMAIN st.tasks
                             => st.tasks[2].responseMode \in ResponseModes(st.model.provider)} :
       /\ sessions = (1 :> NewSession(1, stored.model))
       /\ dbMessages = stored.dbMessages
       /\ attachmentStore = {}
       /\ pushed = {}
       /\ requests = [c \in Clients |-> IdleRequest]
       /\ tasks = stored.tasks
       /\ nextMessageId = 3
       /\ nextExecutionId = stored.nextExecutionId
       /\ calls = 0
       /\ titleCalls = <<>>
       /\ stopCalls = <<>>
       /\ stream = NoStream
       /\ reconnects = <<>>

(***************************************************************************)
(* reconnectToStream, and the stream of the session in chatStreamService    *)
(***************************************************************************)

\* An execution starts to stream the reply id: the session has an active stream.
StreamStart(id) ==
    /\ ~stream.active
    /\ stream.started < MaxStreams
    /\ id = stream.started + 1
    /\ stream' = [stream EXCEPT !.active = TRUE, !.currentMessageId = id,
                                !.started = @ + 1]
    /\ UNCHANGED <<titleCalls, stopCalls, reconnects>>
    /\ UNCHANGED <<svcVars, pureVars>>

\* The active execution produces a chunk, buffered with the next sequence
\* number of the session.
StreamChunk ==
    /\ stream.active
    /\ stream.lastSequenceNumber < MaxChunks
    /\ stream' = [stream EXCEPT
                     !.lastSequenceNumber = @ + 1,
                     !.chunks = Append(@, [sequenceNumber |-> stream.lastSequenceNumber + 1,
                                           messageId |-> stream.currentMessageId])]
    /\ UNCHANGED <<titleCalls, stopCalls, reconnects>>
    /\ UNCHANGED <<svcVars, pureVars>>

\* The execution ends: the session has no active stream any more.
StreamEnd ==
    /\ stream.active
    /\ stream' = [stream EXCEPT !.active = FALSE, !.currentMessageId = NULL]
    /\ UNCHANGED <<titleCalls, stopCalls, reconnects>>
    /\ UNCHANGED <<svcVars, pureVars>>

\* The chunks of a stream that has ended are dropped.
StreamEvict ==
    /\ ~stream.active
    /\ stream.chunks # <<>>
    /\ stream' = [stream EXCEPT !.chunks = <<>>]
    /\ UNCHANGED <<titleCalls, stopCalls, reconnects>>
    /\ UNCHANGED <<svcVars, pureVars>>

\* chatStreamService.getPendingChunks(sessionId, sinceSequence): the buffered
\* chunks with a sequence number greater than sinceSequence, in order
getPendingChunks(sinceSequence) ==
    LET Newer(chunk) == chunk.sequenceNumber > sinceSequence
    IN  SelectSeq(stream.chunks, Newer)

\* The sequence number the client sent returned whatever chunks are pending.
LastSequenceNumberUnchanged(pendingChunks, lastReceivedSequence) == lastReceivedSequence

\* The sequence number of the first pending chunk returned as the last one.
LastSequenceNumberOfFirst(pendingChunks, lastReceivedSequence) ==
    IF Len(pendingChunks) > 0
    THEN pendingChunks[1].sequenceNumber
    ELSE lastReceivedSequence

\* pendingChunks.length > 0 ? pendingChunks[pendingChunks.length - 1].sequenceNumber
\*                          : lastReceivedSequence
LastSequenceNumber(pendingChunks, lastReceivedSequence) ==
    IF Len(pendingChunks) > 0
    THEN pendingChunks[Len(pendingChunks)].sequenceNumber
    ELSE lastReceivedSequence

\* The call of reconnectToStream in progress, if any: the last one made.
Reconnecting(pc) ==
    /\ Len(reconnects) > 0
    /\ reconnects[Len(reconnects)].pc = pc

\* reconnectToStream is called:
\* const hasActiveStream = await this.chatStreamService.hasActiveStream(sessionId)
ReconnectActive ==
    /\ Len(reconnects) < MaxReconnects
    /\ Len(reconnects) > 0 => Reconnecting("done")
    /\ \E lastReceivedSequence \in 0 .. MaxChunks :
          reconnects' = Append(reconnects,
              [pc |-> "currentMessageId", lastReceivedSequence |-> lastReceivedSequence,
               hasActiveStream |-> stream.active, currentMessageId |-> NULL,
               pendingChunks |-> <<>>, lastSequenceNumber |-> NULL])
    /\ UNCHANGED <<titleCalls, stopCalls, stream>>
    /\ UNCHANGED <<svcVars, pureVars>>

\* const currentMessageId = await this.chatStreamService.getCurrentMessageId(sessionId)
ReconnectCurrent ==
    /\ Reconnecting("currentMessageId")
    /\ reconnects' = [reconnects EXCEPT ![Len(reconnects)] =
           [@ EXCEPT !.currentMessageId = stream.currentMessageId,
                     !.pc = "pendingChunks"]]
    /\ UNCHANGED <<titleCalls, stopCalls, stream>>
    /\ UNCHANGED <<svcVars, pureVars>>

\* The last read of reconnectToStream asking for the chunks after sequence
\* number 0 instead of those after lastReceivedSequence.
ReconnectChunksFromStart ==
    /\ Reconnecting("pendingChunks")
    /\ LET call == reconnects[Len(reconnects)]
           pendingChunks == getPendingChunks(0)
       IN  reconnects' = [reconnects EXCEPT ![Len(reconnects)] =
               [@ EXCEPT !.pendingChunks = pendingChunks,
                         !.lastSequenceNumber =
                             LastSequenceNumber(pendingChunks, call.lastReceivedSequence),
                         !.pc = "done"]]
    /\ UNCHANGED <<titleCalls, stopCalls, stream>>
    /\ UNCHANGED <<svcVars, pureVars>>

\* const pendingChunks = await this.chatStreamService.getPendingChunks(...); return
ReconnectChunks ==
    /\ Reconnecting("pendingChunks")
    /\ LET call == reconnects[Len(reconnects)]
           pendingChunks == getPendingChunks(call.lastReceivedSequence)
       IN  reconnects' = [reconnects EXCEPT ![Len(reconnects)] =
               [@ EXCEPT !.pendingChunks = pendingChunks,
                         !.lastSequenceNumber =
                             LastSequenceNumber(pendingChunks, call.lastReceivedSequence),
                         !.pc = "done"]]
    /\ UNCHANGED <<titleCalls, stopCalls, stream>>
    /\ UNCHANGED <<svcVars, pureVars>>

(***************************************************************************)
(* The detached task: the execution and, after it, the session title       *)
(***************************************************************************)

Without(f, k) == [x \in DOMAIN f \ {k} |-> f[x]]

\* The execution service creates the AI message, running, with its execution:
\* a new execution for a launch, the paused one for a resume.
ExecutionStart(id) ==
    /\ id \in DOMAIN tasks
    /\ tasks[id].pc = "start"
    /\ LET task == tasks[id]
           executionId == IF task.kind = "resume" THEN task.executionId ELSE nextExecutionId
       IN  /\ dbMessages' = dbMessages @@
                  (id :> AIMessage(id, task.sessionId, task.previousMessageId,
                                   task.retryOfMessageId, executionId))
           /\ tasks' = [tasks EXCEPT ![id] =
                  [task EXCEPT !.pc = "running", !.executionId = executionId]]
           /\ nextExecutionId' = IF task.kind = "resume" THEN nextExecutionId
                                 ELSE nextExecutionId + 1
    /\ UNCHANGED <<sessions, attachmentStore, pushed, requests, nextMessageId, calls>>
    /\ UNCHANGED sideVars
    /\ UNCHANGED pureVars

\* The execution ends, or pauses for input (response mode responseNodes): the
\* status of the AI message, if still running, records it.  A launch goes on to
\* the title, a resume is over.
ExecutionEnd(id) ==
    /\ id \in DOMAIN tasks
    /\ tasks[id].pc = "running"
    /\ \E status \in {"success", "error"} \cup
                     (IF tasks[id].responseMode = "responseNodes" THEN {"waiting"} ELSE {}) :
          dbMessages' = [dbMessages EXCEPT ![id].status = IF @ = "running" THEN status ELSE @]
    /\ tasks' = IF tasks[id].kind = "launch"
                THEN [tasks EXCEPT ![id].pc = "title"]
                ELSE Without(tasks, id)
    /\ UNCHANGED <<sessions, attachmentStore, pushed, requests, nextMessageId,
                   nextExecutionId, calls>>
    /\ UNCHANGED sideVars
    /\ UNCHANGED pureVars

\* counts with one more call for key k
Counted(counts, k) ==
    [x \in DOMAIN counts \cup {k} |->
        (IF x \in DOMAIN counts THEN counts[x] ELSE 0) + (IF x = k THEN 1 ELSE 0)]

\* The title generated after every execution.
WantsTitleAlways(originalPreviousMessageId, humanMessage) == TRUE

\* if (originalPreviousMessageId === null && humanMessage)
WantsTitle(originalPreviousMessageId, humanMessage) ==
    originalPreviousMessageId = NULL /\ humanMessage # ""

\* executeChatWorkflowWithCleanup after the execution call: the title of the
\* session, generated for a first human message; a failure is logged only.
GenerateTitle(id) ==
    /\ id \in DOMAIN tasks
    /\ tasks[id].pc = "title"
    /\ LET task == tasks[id]
       IN  IF WantsTitle(task.originalPreviousMessageId, task.humanMessage)
           THEN /\ \E ok \in BOOLEAN :
                      sessions' = IF ok /\ task.sessionId \in DOMAIN sessions
                                  THEN [sessions EXCEPT ![task.sessionId].title = "generated"]
                                  ELSE sessions
                /\ titleCalls' = Counted(titleCalls, id)
           ELSE UNCHANGED <<sessions, titleCalls>>
    /\ tasks' = Without(tasks, id)
    /\ UNCHANGED <<dbMessages, attachmentStore, pushed, requests, nextMessageId,
                   nextExecutionId, calls>>
    /\ UNCHANGED <<stopCalls, stream, reconnects>>
    /\ UNCHANGED pureVars

(***************************************************************************)
(* SessionManagerService of the workflow builder                           *)
(* (packages/@n8n/ai-workflow-builder.ee): the sessions of the builder in  *)
(* the in-memory checkpointer and, if configured, in a persistent storage. *)
(*                                                                         *)
(* A message is modelled by its text and its additional_kwargs.messageId   *)
(* (NULL when it has none).                                                *)
(***************************************************************************)

BuilderWorkflows == {1}
BuilderUsers == {1}

\* What new Date().getTime() can return; no user id is among these values.
BuilderClock == {11, 12}

\* The messageId values given to truncateMessagesAfter, and those among them
\* that messages carry.
BuilderMessageIds == {1, 2}
CarriedMessageIds == {1}

\* SessionManagerService.generateThreadId(workflowId, userId) for a workflowId
\* that is set: `workflow-${workflowId}-user-${userId ?? new Date().getTime()}`
generateThreadId(workflowId, userId, now) ==
    [workflow |-> workflowId, user |-> IF userId # NULL THEN userId ELSE now]

BuilderThreads ==
    {generateThreadId(w, u, now) :
        w \in BuilderWorkflows, u \in BuilderUsers \cup {NULL}, now \in BuilderClock}

\* The message lists of at most n messages; the text of a message is its
\* place in the conversation.
RECURSIVE BuilderMessageLists(_)
BuilderMessageLists(n) ==
    IF n = 0 THEN {<<>>}
    ELSE LET shorter == BuilderMessageLists(n - 1)
         IN  shorter \cup
             {Append(l, [text |-> Len(l) + 1, messageId |-> k]) :
                 l \in {x \in shorter : Len(x) = n - 1},
                 k \in {NULL} \cup CarriedMessageIds}

NoBuilderCall ==
    [op |-> "none", threadId |-> [workflow |-> NULL, user |-> NULL], messageId |-> NULL,
     result |-> "none", sessions |-> <<>>, originalCount |-> 0]

IdleBuilder ==
    /\ usesPersistence = FALSE
    /\ storage = <<>>
    /\ checkpointer = <<>>
    /\ builderCall = NoBuilderCall
    /\ builderCalls = 0

\* The service after construction, with or without a storage, over what the
\* storage holds and what LangGraph has checkpointed for the thread of the
\* one user: nothing, or a session each, the two not necessarily alike; the
\* checkpoint may hold something that is no array of messages.
InitBuilder ==
    \E persistent \in BOOLEAN,
       stored \in {"none"} \cup {"some"}, checkpointed \in {"none", "some", "invalid"},
       storedMessages \in BuilderMessageLists(MaxBuilderMessages),
       checkpointMessages \in BuilderMessageLists(MaxBuilderMessages),
       previousSummary \in {NULL, 1} :
       LET threadId == generateThreadId(1, 1, 11)
       IN  /\ stored = "none" \/ ~persistent
                => storedMessages = <<>> /\ previousSummary = NULL
           /\ checkpointed # "some" => checkpointMessages = <<>>
           /\ usesPersistence = persistent
           /\ storage = IF persistent /\ stored = "some"
                         THEN threadId :> [messages |-> storedMessages,
                                           previousSummary |-> previousSummary]
                         ELSE <<>>
           /\ checkpointer = IF checkpointed = "none" THEN <<>>
                              ELSE threadId :> [valid |-> checkpointed = "some",
                                                messages |-> checkpointMessages]
           /\ builderCall = NoBuilderCall
           /\ builderCalls = 0

\* isLangchainMessagesArray(rawMessages) ? rawMessages : []
MessagesOf(checkpoint) == IF checkpoint.valid THEN checkpoint.messages ELSE <<>>

\* What a call of the service leaves as it is outside the service.
BuilderFrame == UNCHANGED <<walkVars, attVars, convVars, svcVars, sideVars, redisVars>>

\* The guard and the counter every call of the service shares.
BuilderCallMade ==
    /\ builderCalls < MaxBuilderCalls
    /\ builderCalls' = builderCalls + 1
    /\ UNCHANGED usesPersistence

\* loadSessionIntoCheckpointer(threadId)
LoadSessionIntoCheckpointer ==
    /\ BuilderCallMade
    /\ \E threadId \in BuilderThreads :
          /\ checkpointer' =
                IF usesPersistence /\ threadId \in DOMAIN storage
                   /\ Len(storage[threadId].messages) > 0
                THEN [t \in DOMAIN checkpointer \cup {threadId} |->
                         IF t = threadId
                         THEN [valid |-> TRUE, messages |-> storage[threadId].messages]
                         ELSE checkpointer[t]]
                ELSE checkpointer
          /\ builderCall' = [NoBuilderCall EXCEPT !.op = "loadSessionIntoCheckpointer",
                                                  !.threadId = threadId, !.result = "ok"]
    /\ UNCHANGED storage
    /\ BuilderFrame

\* saveSessionFromCheckpointer(threadId, previousSummary)
SaveSessionFromCheckpointer ==
    /\ BuilderCallMade
    /\ \E threadId \in BuilderThreads, previousSummary \in {NULL, 1} :
          /\ storage' =
                IF usesPersistence /\ threadId \in DOMAIN checkpointer
                THEN [t \in DOMAIN storage \cup {threadId} |->
                         IF t = threadId
                         THEN [messages |-> MessagesOf(checkpointer[threadId]),
                               previousSummary |-> previousSummary]
                         ELSE storage[t]]
                ELSE storage
          /\ builderCall' = [NoBuilderCall EXCEPT !.op = "saveSessionFromCheckpointer",
                                                  !.threadId = threadId, !.result = "ok"]
    /\ UNCHANGED checkpointer
    /\ BuilderFrame

\* this.storage.deleteSession(threadId)
deleteSession(store, threadId) == [t \in DOMAIN store \ {threadId} |-> store[t]]

\* clearSession(threadId): the session is deleted from the storage, if there
\* is one; nothing is done to the checkpointer.
ClearSession ==
    /\ BuilderCallMade
    /\ \E threadId \in BuilderThreads, deleted \in BOOLEAN :
          /\ ~deleted => usesPersistence
          /\ storage' = IF usesPersistence /\ deleted
                         THEN deleteSession(storage, threadId)
                         ELSE storage
          /\ builderCall' = [NoBuilderCall EXCEPT
                                !.op = "clearSession", !.threadId = threadId,
                                !.result = IF deleted THEN "ok" ELSE "threw"]
    /\ UNCHANGED checkpointer
    /\ BuilderFrame

\* The sessions getSessions returns for the thread: the stored session if it
\* has messages, else the checkpoint of the thread if there is one, else none.
\* `messages` is what is handed to formatMessages.
SessionsOf(threadId) ==
    IF usesPersistence /\ threadId \in DOMAIN storage
       /\ Len(storage[threadId].messages) > 0
    THEN <<[sessionId |-> threadId, messages |-> storage[threadId].messages]>>
    ELSE IF threadId \in DOMAIN checkpointer
    THEN <<[sessionId |-> threadId, messages |-> MessagesOf(checkpointer[threadId])]>>
    ELSE <<>>

\* getSessions(workflowId, userId)
GetSessions ==
    /\ BuilderCallMade
    /\ \E workflowId \in BuilderWorkflows \cup {NULL}, userId \in BuilderUsers \cup {NULL},
          now \in BuilderClock :
          LET threadId == generateThreadId(workflowId, userId, now)
          IN  builderCall' = [NoBuilderCall EXCEPT
                                 !.op = "getSessions", !.threadId = threadId,
                                 !.result = "ok",
                                 !.sessions = IF workflowId = NULL THEN <<>>
                                              ELSE SessionsOf(threadId)]
    /\ UNCHANGED <<storage, checkpointer>>
    /\ BuilderFrame

\* messages.findIndex((msg) => msg.additional_kwargs?.messageId === messageId),
\* counting from 1; 0 when no message carries the id.
findIndex(msgs, messageId) ==
    LET hits == {i \in 1 .. Len(msgs) : msgs[i].messageId = messageId}
    IN  IF hits = {} THEN 0 ELSE CHOOSE i \in hits : \A j \in hits : i <= j

\* The slice that keeps the message carrying the id.
sliceThroughTarget(msgs, msgIndex) == SubSeq(msgs, 1, msgIndex)

\* messages.slice(0, msgIndex): the messages before the one at msgIndex
sliceBefore(msgs, msgIndex) == SubSeq(msgs, 1, msgIndex - 1)

\* Where truncateMessagesAfter returns false before it has written anything:
\* no stored session, no checkpoint, no array of messages, a read that
\* throws, or no message with the id.
TruncateRefused(threadId, messageId, fault) ==
    \/ fault = "getSession"
    \/ usesPersistence /\ threadId \notin DOMAIN storage
    \/ ~usesPersistence /\ threadId \notin DOMAIN checkpointer
    \/ ~usesPersistence /\ ~checkpointer[threadId].valid
    \/ findIndex(IF usesPersistence THEN storage[threadId].messages
                  ELSE checkpointer[threadId].messages, messageId) = 0

\* truncateMessagesAfter(workflowId, userId, messageId); `fault` is the call
\* to the storage or the checkpointer that throws, if any.
TruncateMessagesAfter ==
    /\ BuilderCallMade
    /\ \E workflowId \in BuilderWorkflows, userId \in BuilderUsers \cup {NULL},
          now \in BuilderClock, messageId \in BuilderMessageIds,
          fault \in {"none", "getSession", "saveSession", "put"} :
          LET threadId == generateThreadId(workflowId, userId, now)
              call == [NoBuilderCall EXCEPT !.op = "truncateMessagesAfter",
                                            !.threadId = threadId,
                                            !.messageId = messageId]
          IN  /\ fault \in {"getSession", "saveSession"} => usesPersistence
              /\ IF TruncateRefused(threadId, messageId, fault)
                 THEN /\ fault \in {"none", "getSession"}
                      /\ UNCHANGED <<storage, checkpointer>>
                      /\ builderCall' = [call EXCEPT !.result = "false"]
                 ELSE LET msgs == IF usesPersistence THEN storage[threadId].messages
                                  ELSE checkpointer[threadId].messages
                          truncatedMessages == sliceBefore(msgs, findIndex(msgs, messageId))
                          saved == usesPersistence /\ fault # "saveSession"
                          put == /\ fault = "none"
                                 /\ threadId \in DOMAIN checkpointer
                      IN  /\ fault = "put" => threadId \in DOMAIN checkpointer
                          /\ storage' =
                                IF saved
                                THEN [storage EXCEPT ![threadId] =
                                         [messages |-> truncatedMessages,
                                          previousSummary |-> @.previousSummary]]
                                ELSE storage
                          /\ checkpointer' =
                                IF put
                                THEN [checkpointer EXCEPT ![threadId] =
                                         [valid |-> TRUE, messages |-> truncatedMessages]]
                                ELSE checkpointer
                          /\ builderCall' =
                                [call EXCEPT !.result = IF fault = "none" THEN "true"
                                                        ELSE "false",
                                             !.originalCount = Len(msgs)]
    /\ BuilderFrame

(***************************************************************************)
(* RedisChatHistory (packages/@n8n/ai-utilities/examples/memory/redis.ts)  *)
(* over the connection createRedisConnection returns, used by concurrent   *)
(* clients on one session key.                                             *)
(*                                                                         *)
(* The entry of the key has its values and, for Date.now() against its     *)
(* expiresAt, `expiry`: "none" (no expiresAt), "ahead" or "passed".  A     *)
(* message is <<client, call, place in the call>>, so no two are alike.    *)
(***************************************************************************)

RedisClients == {1, 2}

NoEntry == [exists |-> FALSE, values |-> <<>>, expiry |-> "none"]

\* JSON.stringify(message)
Serialize(message) == [wellFormed |-> TRUE, text |-> message]

\* An item of the list that is no JSON text.
Garbage == [wellFormed |-> FALSE, text |-> <<0, 0, 0>>]

\* items.map((item) => { try { return JSON.parse(item) } catch { return null } })
\*      .filter((m) => m !== null)
RECURSIVE Parsed(_)
Parsed(items) ==
    IF items = <<>> THEN <<>>
    ELSE (IF Head(items).wellFormed THEN <<Head(items).text>> ELSE <<>>)
         \o Parsed(Tail(items))

IdleRedisCall == [op |-> "none", pc |-> "idle", n |-> 0, messages |-> <<>>,
                  sent |-> 0, result |-> <<>>]

IdleRedis ==
    /\ redisStore = NoEntry
    /\ redisTtl = FALSE
    /\ redisCalls = <<>>
    /\ redisAppends = <<>>
    /\ redisKept = 0

\* The histories of the clients constructed over one connection, with or
\* without ttlSeconds; the key is absent or holds an item that is no JSON.
InitRedis ==
    \E ttl \in BOOLEAN, garbage \in BOOLEAN :
       /\ redisStore = IF garbage
                        THEN [exists |-> TRUE, values |-> <<Garbage>>, expiry |-> "none"]
                        ELSE NoEntry
       /\ redisTtl = ttl
       /\ redisCalls = [c \in RedisClients |-> IdleRedisCall]
       /\ redisAppends = <<>>
       /\ redisKept = 0

RedisFrame == UNCHANGED <<walkVars, attVars, convVars, svcVars, sideVars, builderVars>>

\* rpush(key, ...values)
rpush(entry, values) ==
    IF ~entry.exists \/ entry.expiry = "passed"
    THEN [exists |-> TRUE, values |-> values, expiry |-> "none"]
    ELSE [entry EXCEPT !.values = @ \o values]

\* lrange(key, 0, -1): what it returns, and what it leaves of the entry
lrange(entry) ==
    IF ~entry.exists THEN [items |-> <<>>, entry |-> entry]
    ELSE IF entry.expiry = "passed" THEN [items |-> <<>>, entry |-> NoEntry]
    ELSE [items |-> entry.values, entry |-> entry]

\* expire(key, seconds) with seconds > 0
expire(entry) == IF entry.exists THEN [entry EXCEPT !.expiry = "ahead"] ELSE entry

\* The messages of the n-th call of client c with `size` messages.
RedisMessages(c, n, size) == [i \in 1 .. size |-> <<c, n, i>>]

\* A client calls addMessage, addMessages, getMessages or clear.
RedisCall(c) ==
    /\ redisCalls[c].pc \in {"idle", "done"}
    /\ redisCalls[c].n < MaxRedisCalls
    /\ \E op \in {"addMessage", "addMessages", "getMessages", "clear"},
          size \in 0 .. MaxBatch :
          /\ op = "addMessage" => size = 1
          /\ op \in {"getMessages", "clear"} => size = 0
          /\ redisCalls' = [redisCalls EXCEPT ![c] =
                 [IdleRedisCall EXCEPT
                     !.op = op, !.n = redisCalls[c].n + 1,
                     !.messages = RedisMessages(c, redisCalls[c].n + 1, size),
                     !.pc = IF op = "getMessages" THEN "lrange"
                            ELSE IF op = "clear" THEN "del"
                            ELSE IF size = 0 THEN "done"
                            ELSE "rpush"]]
    /\ UNCHANGED <<redisStore, redisTtl, redisAppends, redisKept>>
    /\ RedisFrame

\* addMessages pushing its messages one rpush at a time.
RedisPushOneByOne(c) ==
    /\ redisCalls[c].pc = "rpush"
    /\ LET call == redisCalls[c]
           next == call.sent + 1
       IN  /\ redisStore' = rpush(redisStore, <<Serialize(call.messages[next])>>)
           /\ redisAppends' = IF call.sent = 0
                               THEN Append(redisAppends, call.messages)
                               ELSE redisAppends
           /\ redisCalls' = [redisCalls EXCEPT ![c] =
                  [@ EXCEPT !.sent = next,
                            !.pc = IF next < Len(call.messages) THEN "rpush"
                                   ELSE IF redisTtl THEN "expire" ELSE "done"]]
    /\ UNCHANGED <<redisTtl, redisKept>>
    /\ RedisFrame

\* await this.redis.rpush(this.key, JSON.stringify(message)) of addMessage and
\* await this.redis.rpush(this.key, ...serialized) of addMessages
RedisPush(c) ==
    /\ redisCalls[c].pc = "rpush"
    /\ LET call == redisCalls[c]
           serialized == [i \in 1 .. Len(call.messages) |-> Serialize(call.messages[i])]
       IN  /\ redisStore' = rpush(redisStore, serialized)
           /\ redisAppends' = Append(redisAppends, call.messages)
           /\ redisCalls' = [redisCalls EXCEPT ![c] =
                  [@ EXCEPT !.sent = Len(call.messages),
                            !.pc = IF redisTtl THEN "expire" ELSE "done"]]
    /\ UNCHANGED <<redisTtl, redisKept>>
    /\ RedisFrame

\* if (this.ttlSeconds) await this.redis.expire(this.key, this.ttlSeconds)
RedisExpire(c) ==
    /\ redisCalls[c].pc = "expire"
    /\ redisStore' = expire(redisStore)
    /\ redisCalls' = [redisCalls EXCEPT ![c] = [@ EXCEPT !.pc = "done"]]
    /\ UNCHANGED <<redisTtl, redisAppends, redisKept>>
    /\ RedisFrame

\* getMessages()
RedisGetMessages(c) ==
    /\ redisCalls[c].pc = "lrange"
    /\ redisStore' = lrange(redisStore).entry
    /\ redisCalls' = [redisCalls EXCEPT ![c] =
           [@ EXCEPT !.result = Parsed(lrange(redisStore).items), !.pc = "done"]]
    /\ UNCHANGED <<redisTtl, redisAppends, redisKept>>
    /\ RedisFrame

\* clear(): await this.redis.del(this.key)
RedisClear(c) ==
    /\ redisCalls[c].pc = "del"
    /\ redisStore' = NoEntry
    /\ redisKept' = Len(redisAppends)
    /\ redisCalls' = [redisCalls EXCEPT ![c] = [@ EXCEPT !.pc = "done"]]
    /\ UNCHANGED <<redisTtl, redisAppends>>
    /\ RedisFrame

\* Time passes the expiresAt of the entry: Date.now() > entry.expiresAt.
RedisKeyExpires ==
    /\ redisStore.exists
    /\ redisStore.expiry = "ahead"
    /\ redisStore' = [redisStore EXCEPT !.expiry = "passed"]
    /\ redisKept' = Len(redisAppends)
    /\ UNCHANGED <<redisTtl, redisCalls, redisAppends>>
    /\ RedisFrame

(***************************************************************************)
(* Claims about sendHumanMessage, editMessage and regenerateAIMessage      *)
(***************************************************************************)

Sends == {c \in Clients : requests[c].op = "send"}

AfterStore == {"createHumanMessage", "prepareReplyWorkflow"}

\* C7: when a send fails inside the transaction after its attachments were
\* stored, deleteAttachments is called with all of them before the call
\* returns, and the caller gets the error of the transaction, also when the
\* deletion fails.
C7_CleanupKeepsOriginalError ==
    \A c \in Sends :
       (/\ requests[c].pc = "done"
        /\ requests[c].txError.at \in AfterStore
        /\ requests[c].processedAttachments # {})
       => /\ requests[c].deleteAttempted
          /\ requests[c].thrown = requests[c].txError

\* The deletion failed (the attachments are still stored) and the caller has
\* the error of the transaction.
C7_Witness ==
    \E c \in Sends :
       /\ requests[c].pc = "done"
       /\ requests[c].txError.at \in AfterStore
       /\ requests[c].processedAttachments # {}
       /\ requests[c].processedAttachments \subseteq attachmentStore
       /\ requests[c].deleteAttempted
       /\ requests[c].thrown = requests[c].txError

HumanMessagePushed(messageId) ==
    [type |-> "humanMessage", messageId |-> messageId] \in pushed

\* C8: the broadcast of a send happens in a step after the one that committed
\* the transaction and before the one that launches or resumes the execution;
\* a send whose transaction failed broadcasts nothing and starts nothing.
C8_BroadcastBetweenCommitAndLaunch ==
    /\ [](\A c \in Sends :
             /\ requests[c].broadcast =>
                   /\ requests[c].committed
                   /\ HumanMessagePushed(requests[c].messageId)
             /\ (requests[c].launched \/ requests[c].resumed) => requests[c].broadcast
             /\ requests[c].txError # NoError =>
                   /\ ~requests[c].committed
                   /\ ~requests[c].broadcast
                   /\ ~HumanMessagePushed(requests[c].messageId)
                   /\ ~requests[c].launched /\ ~requests[c].resumed)
    /\ [][\A c \in Clients :
             (requests'[c].op = "send" /\ calls' = calls) =>
                /\ (requests'[c].broadcast /\ ~requests[c].broadcast) =>
                      /\ requests[c].committed
                      /\ ~requests[c].launched /\ ~requests[c].resumed
                      /\ ~requests'[c].launched /\ ~requests'[c].resumed
                /\ ((requests'[c].launched \/ requests'[c].resumed)
                    /\ ~(requests[c].launched \/ requests[c].resumed)) =>
                      requests[c].broadcast]_vars

\* A send has committed, broadcast and launched, in this order.
C8_Witness ==
    \E c \in Sends :
       /\ requests[c].pc = "done"
       /\ requests[c].committed
       /\ HumanMessagePushed(requests[c].messageId)
       /\ requests[c].launched
       /\ requests[c].replyId \in DOMAIN tasks

\* C9 as stated: once the transaction of a send, edit or regenerate has
\* committed, no failure is thrown back into the request.
C9_NothingThrownAfterCommit ==
    \A c \in Clients : requests[c].committed => requests[c].thrown = NoError

\* The steps a call awaits after its transaction has committed
AwaitedAfterCommit(op) ==
    CASE op = "send" -> {"workflow", "chatStreamService.sendHumanMessage",
                         "findSingleExecution", "updateChatMessage"}
      [] op = "edit" -> {"chatStreamService.sendMessageEdit"}
      [] OTHER -> {}

\* C9 as amended: after commit only what the call itself still does throws
\* back: for a send the check that a workflow was prepared, the broadcast and,
\* when resuming, the lookup of the paused execution and the status update;
\* for an edit of a human message the broadcast; for a regenerate nothing.
\* Once the execution is launched or resumed the call has no error, whatever
\* becomes of the execution: its failure shows only as the status of the AI
\* message.
C9_OnlyAwaitedStepsThrowAfterCommit ==
    \A c \in Clients :
       /\ (requests[c].committed /\ requests[c].thrown # NoError) =>
             /\ requests[c].thrown.at \in AwaitedAfterCommit(requests[c].op)
             /\ ~requests[c].launched /\ ~requests[c].resumed
       /\ (requests[c].launched \/ requests[c].resumed) =>
             /\ requests[c].committed
             /\ requests[c].thrown = NoError

\* The execution a send launched has failed: the AI message says so, the call
\* has returned without error.
C9_Witness ==
    \E c \in Sends :
       /\ requests[c].pc = "done"
       /\ requests[c].committed
       /\ requests[c].launched
       /\ requests[c].thrown = NoError
       /\ requests[c].replyId \in DOMAIN dbMessages
       /\ dbMessages[requests[c].replyId].status = "error"

\* The previous message of a call as stored when its transaction began: the
\* case of C10, a waiting message with an execution, hosted workflow, response
\* mode responseNodes.
WaitingCase(req) ==
    /\ req.model.provider = "n8n"
    /\ req.responseMode = "responseNodes"
    /\ req.previousMessageId # NULL
    /\ req.previousMessage.id = req.previousMessageId
    /\ req.previousMessage.status = "waiting"
    /\ req.previousMessage.executionId # NULL

Started(req) == req.replyId \in DOMAIN tasks \/ req.replyId \in DOMAIN dbMessages

\* C10 as stated: a committed send in the waiting case resumes the paused
\* execution and starts none, the waiting message being set to success before
\* the resume; every other committed send launches one execution and resumes
\* none.
C10_ResumesOrLaunches ==
    \A c \in Sends :
       (requests[c].pc = "done" /\ requests[c].committed) =>
          IF WaitingCase(requests[c])
          THEN requests[c].resumed /\ ~requests[c].launched /\ requests[c].marked
          ELSE requests[c].launched /\ ~requests[c].resumed

\* C10 as amended: a committed send that has no prepared workflow, or whose
\* broadcast failed, fails and starts nothing.  After the broadcast, in the
\* waiting case either the execution record is found, the waiting message is set to success and then the paused
\* execution is resumed and no new one started, or the send fails (record not
\* found, or the status update failed) and nothing is resumed or started; in
\* every other case exactly one new execution is launched and none resumed.
C10_ResumesOrLaunchesOrFails ==
    \A c \in Sends :
       /\ requests[c].pc = "resume" =>
             /\ requests[c].marked
             /\ dbMessages[requests[c].previousMessageId].status = "success"
       /\ (requests[c].pc = "done" /\ requests[c].committed) =>
             IF ~requests[c].broadcast
             THEN /\ requests[c].thrown.at \in {"workflow",
                                              "chatStreamService.sendHumanMessage"}
                  /\ ~requests[c].launched /\ ~requests[c].resumed
                  /\ ~Started(requests[c])
             ELSE IF WaitingCase(requests[c])
             THEN \/ /\ requests[c].resumed /\ ~requests[c].launched
                     /\ requests[c].marked
                     /\ requests[c].thrown = NoError
                     /\ dbMessages[requests[c].previousMessageId].status # "waiting"
                     /\ Started(requests[c])
                     /\ requests[c].replyId \in DOMAIN dbMessages =>
                           dbMessages[requests[c].replyId].executionId
                               = requests[c].previousMessage.executionId
                  \/ /\ requests[c].thrown.at \in {"findSingleExecution", "updateChatMessage"}
                     /\ ~requests[c].resumed /\ ~requests[c].launched
                     /\ ~Started(requests[c])
             ELSE /\ requests[c].launched /\ ~requests[c].resumed
                  /\ requests[c].thrown = NoError
                  /\ Started(requests[c])
                  /\ requests[c].replyId \in DOMAIN dbMessages =>
                        dbMessages[requests[c].replyId].executionId
                            # requests[c].previousMessage.executionId

\* A send has resumed the paused execution of the waiting message, and the
\* resumed execution has written its AI message.
C10_Witness ==
    \E c \in Sends :
       /\ requests[c].pc = "done"
       /\ WaitingCase(requests[c])
       /\ requests[c].resumed
       /\ requests[c].replyId \in DOMAIN dbMessages
       /\ dbMessages[requests[c].replyId].executionId
              = requests[c].previousMessage.executionId
       /\ dbMessages[requests[c].previousMessageId].status = "success"

(***************************************************************************)
(* Claims about editMessage                                                *)
(***************************************************************************)

Edits == {c \in Clients : requests[c].op = "edit"}

\* The step is the transaction of an edit by client c of a stored message of
\* the given type.
EditStepOn(c, type) ==
    /\ calls' = calls + 1
    /\ requests'[c].op = "edit"
    /\ getOneById(requests'[c].targetId, requests'[c].sessionId).id # NULL
    /\ getOneById(requests'[c].targetId, requests'[c].sessionId).type = type
    /\ getChatSession(requests'[c].user, requests'[c].sessionId).ownerId # NULL

\* C11: an edit of an AI message creates no message, broadcasts nothing and
\* starts no execution: the call is over after its transaction, which changes
\* nothing but the content of the target, replaced by the text of the payload;
\* with the provider n8n the edit is rejected with a BadRequestError and the
\* content stays as it was.
C11_AIEditOnlyReplacesContent ==
    [][\A c \in Clients :
          EditStepOn(c, "ai") =>
             LET call == requests'[c]
                 editId == call.targetId
             IN  /\ call.pc = "done"
                 /\ ~call.broadcast /\ ~call.launched /\ ~call.resumed
                 /\ UNCHANGED <<sessions, attachmentStore, pushed, tasks,
                                nextMessageId, nextExecutionId>>
                 /\ DOMAIN dbMessages' = DOMAIN dbMessages
                 /\ \A id \in DOMAIN dbMessages \ {editId} :
                       dbMessages'[id] = dbMessages[id]
                 /\ dbMessages'[editId] =
                       [dbMessages[editId] EXCEPT
                           !.content = IF call.thrown = NoError THEN "edited" ELSE @]
                 /\ call.model.provider = "n8n" =>
                       /\ call.thrown.type = "BadRequestError"
                       /\ dbMessages'[editId].content = dbMessages[editId].content]_vars

\* An edit of an AI message has returned, and the message has the new text.
C11_Witness ==
    \E c \in Edits :
       /\ requests[c].pc = "done"
       /\ requests[c].thrown = NoError
       /\ getOneById(requests[c].targetId, requests[c].sessionId).id # NULL
       /\ getOneById(requests[c].targetId, requests[c].sessionId).type = "ai"
       /\ dbMessages[requests[c].targetId].content = "edited"
       /\ requests[c].model.provider # "n8n"

\* The message found by following revisionOfMessageId from message id as far
\* as it leads.
RECURSIVE RevisionRoot(_, _)
RevisionRoot(id, fuel) ==
    IF fuel = 0 \/ id \notin DOMAIN dbMessages
       \/ dbMessages[id].revisionOfMessageId = NULL
    THEN id
    ELSE RevisionRoot(dbMessages[id].revisionOfMessageId, fuel - 1)

\* No stored revision revises a revision.
RevisionsFlat ==
    \A id \in DOMAIN dbMessages :
       LET root == dbMessages[id].revisionOfMessageId
       IN  root # NULL =>
              /\ root \in DOMAIN dbMessages
              /\ dbMessages[root].revisionOfMessageId = NULL

\* C12: the transaction of an edit of a human message, when it commits, adds
\* exactly one message, a human message whose revisionOfMessageId is the root
\* of the revision lineage of the edited message, and changes no other; so in
\* every state every revisionOfMessageId that is set names a message whose own
\* revisionOfMessageId is null.
C12_RevisionsFlattened ==
    /\ []RevisionsFlat
    /\ [][\A c \in Clients :
             EditStepOn(c, "human") /\ requests'[c].committed =>
                LET call == requests'[c]
                IN  /\ call.messageId \notin DOMAIN dbMessages
                    /\ DOMAIN dbMessages' = DOMAIN dbMessages \cup {call.messageId}
                    /\ \A id \in DOMAIN dbMessages : dbMessages'[id] = dbMessages[id]
                    /\ dbMessages'[call.messageId].type = "human"
                    /\ dbMessages'[call.messageId].revisionOfMessageId =
                          RevisionRoot(call.targetId, Cardinality(DOMAIN dbMessages))]_vars

\* A revision has been edited: the new revision names the message that the
\* edited revision revised.
C12_Witness ==
    \E c \in Edits :
       /\ requests[c].committed
       /\ requests[c].replyId # NULL
       /\ dbMessages[requests[c].targetId].revisionOfMessageId # NULL
       /\ dbMessages[requests[c].messageId].revisionOfMessageId
              = dbMessages[requests[c].targetId].revisionOfMessageId

\* The ids of the stored messages that message id descends from.
RECURSIVE Ancestors(_, _)
Ancestors(id, fuel) ==
    IF fuel = 0 \/ id \notin DOMAIN dbMessages
       \/ dbMessages[id].previousMessageId = NULL
    THEN {}
    ELSE {dbMessages[id].previousMessageId}
         \cup Ancestors(dbMessages[id].previousMessageId, fuel - 1)

\* ids is the chain of stored messages from a first message to message last,
\* each the parent of the next; the empty chain when last is null.
IsChainEndingAt(ids, last) ==
    IF last = NULL THEN ids = <<>>
    ELSE /\ Len(ids) >= 1
         /\ ids[Len(ids)] = last
         /\ \A i \in 1 .. Len(ids) : ids[i] \in DOMAIN dbMessages
         /\ dbMessages[ids[1]].previousMessageId = NULL
         /\ \A i \in 2 .. Len(ids) : dbMessages[ids[i]].previousMessageId = ids[i - 1]

\* C13: after the edit of a human message the new revision has the
\* previousMessageId of the edited message, and the history given to
\* prepareReplyWorkflow is the chain that ends at that parent: the edited
\* message, the new revision and the descendants of the edited message are
\* not in it.
C13_EditHistoryEndsAtParent ==
    \A c \in Edits :
       requests[c].committed /\ requests[c].replyId # NULL =>
          LET call == requests[c]
              edited == dbMessages[call.targetId]
              revision == dbMessages[call.messageId]
          IN  /\ revision.previousMessageId = edited.previousMessageId
              /\ IsChainEndingAt(call.history, edited.previousMessageId)
              /\ \A i \in 1 .. Len(call.history) :
                    /\ call.history[i] # call.targetId
                    /\ call.history[i] # call.messageId
                    /\ call.targetId \notin
                          Ancestors(call.history[i], Cardinality(DOMAIN dbMessages))

\* A human message with a parent and a stored reply has been edited, and the
\* history of the edit is the two messages before it.
C13_Witness ==
    \E c \in Edits :
       /\ requests[c].committed
       /\ requests[c].replyId # NULL
       /\ requests[c].history = <<1, 2>>
       /\ \E id \in DOMAIN dbMessages :
             /\ id # requests[c].messageId
             /\ requests[c].targetId \in Ancestors(id, Cardinality(DOMAIN dbMessages))

\* The step is the transaction of an edit by client c of a stored message
\* that is neither a human nor an AI message.
EditStepOnOtherType(c) ==
    \E type \in {dbMessages[id].type : id \in DOMAIN dbMessages} \ {"human", "ai"} :
       EditStepOn(c, type)

\* C14: an edit of a message that is neither human nor ai throws a
\* BadRequestError and changes nothing: no message is created or modified, no
\* attachment is stored, nothing is broadcast and no execution starts.
C14_OtherTypesRejected ==
    [][\A c \in Clients :
          EditStepOnOtherType(c) =>
             /\ requests'[c].thrown = Error("BadRequestError", "editMessage")
             /\ requests'[c].pc = "done"
             /\ ~requests'[c].committed
             /\ requests'[c].processedAttachments = {}
             /\ UNCHANGED <<sessions, dbMessages, attachmentStore, pushed, tasks,
                            nextMessageId, nextExecutionId>>]_vars

\* An edit of a system message has been rejected.
C14_Witness ==
    \E c \in Edits :
       /\ requests[c].pc = "done"
       /\ requests[c].targetId \in DOMAIN dbMessages
       /\ dbMessages[requests[c].targetId].type = "system"
       /\ requests[c].thrown = Error("BadRequestError", "editMessage")
       /\ dbMessages[requests[c].targetId].content = "note"

(***************************************************************************)
(* Claims about regenerateAIMessage                                        *)
(***************************************************************************)

Regenerates == {c \in Clients : requests[c].op = "regenerate"}

\* The step is the transaction of a regenerate by client c.
RegenerateStep(c) ==
    /\ calls' = calls + 1
    /\ requests'[c].op = "regenerate"

\* The stored messages that descend from message `from` and are ancestors of
\* message `to`.
StrictlyBetween(from, to) ==
    {id \in Ancestors(to, Cardinality(DOMAIN dbMessages)) :
        from \in Ancestors(id, Cardinality(DOMAIN dbMessages))}

\* C15: the history a regenerate gives to prepareReplyWorkflow is the chain of
\* ancestors of the retried AI message up to and including the most recent
\* human message among them: no message between that human message and the
\* retried one is in it; and the transaction of a regenerate leaves the stored
\* messages as they are.
C15_HistoryCutAfterLastHuman ==
    /\ [](\A c \in Regenerates :
             requests[c].committed =>
                LET call == requests[c]
                    last == call.history[Len(call.history)]
                IN  /\ Len(call.history) >= 1
                    /\ IsChainEndingAt(call.history, last)
                    /\ dbMessages[last].type = "human"
                    /\ last \in Ancestors(call.targetId, Cardinality(DOMAIN dbMessages))
                    /\ call.previousMessageId = last
                    /\ \A id \in StrictlyBetween(last, call.targetId) :
                          /\ dbMessages[id].type # "human"
                          /\ \A i \in 1 .. Len(call.history) : call.history[i] # id)
    /\ [][\A c \in Clients :
             RegenerateStep(c) =>
                UNCHANGED <<dbMessages, sessions, attachmentStore>>]_vars

\* A reply has been regenerated that has a reply and a system message between
\* it and the last human message before it: the history is that human message.
C15_Witness ==
    \E c \in Regenerates :
       /\ requests[c].committed
       /\ requests[c].history = <<1>>
       /\ StrictlyBetween(1, requests[c].targetId) = {2, 3}

\* The target of the call is a stored message of its session.
TargetStored(call) == getOneById(call.targetId, call.sessionId).id # NULL

\* The ids of the stored human messages.
HumanMessages == {id \in DOMAIN dbMessages : dbMessages[id].type = "human"}

\* The origin of the retries that message id belongs to: the message its
\* retryOfMessageId names, or itself.
RetryOrigin(id) ==
    IF dbMessages[id].retryOfMessageId # NULL THEN dbMessages[id].retryOfMessageId
    ELSE id

\* C16: a regenerate whose target is not an AI message throws a
\* BadRequestError and launches nothing; a regenerate creates no human
\* message; the reply it launches carries as retryOfMessageId the target's
\* retryOfMessageId when the target is a retry and the target's id otherwise,
\* so that no retryOfMessageId names a message that is itself a retry.
C16_RetriesShareOrigin ==
    /\ [](\A c \in Regenerates :
             LET call == requests[c]
             IN  /\ TargetStored(call) /\ dbMessages[call.targetId].type # "ai" =>
                       /\ call.pc = "done"
                       /\ call.thrown = Error("BadRequestError", "messageToRetry.type")
                       /\ ~call.launched
                       /\ call.replyId = NULL
                 /\ call.launched =>
                       /\ dbMessages[call.targetId].type = "ai"
                       /\ call.retryOfMessageId = RetryOrigin(call.targetId)
                       /\ call.replyId \in DOMAIN tasks =>
                             tasks[call.replyId].retryOfMessageId
                                = RetryOrigin(call.targetId)
                       /\ call.replyId \in DOMAIN dbMessages =>
                             /\ dbMessages[call.replyId].type = "ai"
                             /\ dbMessages[call.replyId].retryOfMessageId
                                   = RetryOrigin(call.targetId))
    /\ [](\A id \in DOMAIN dbMessages :
             dbMessages[id].retryOfMessageId # NULL =>
                /\ dbMessages[id].retryOfMessageId \in DOMAIN dbMessages
                /\ dbMessages[dbMessages[id].retryOfMessageId].retryOfMessageId = NULL)
    /\ [][HumanMessages' = HumanMessages]_vars

\* A retry has been regenerated, and the new reply is stored with the
\* retryOfMessageId of that retry.
C16_Witness ==
    \E c \in Regenerates :
       /\ requests[c].launched
       /\ dbMessages[requests[c].targetId].retryOfMessageId # NULL
       /\ requests[c].replyId \in DOMAIN dbMessages
       /\ dbMessages[requests[c].replyId].retryOfMessageId
              = dbMessages[requests[c].targetId].retryOfMessageId

(***************************************************************************)
(* Claims about the session title                                          *)
(***************************************************************************)

\* How often the task of reply id has called generateSessionTitle.
TitleCallsOf(counts, id) == IF id \in DOMAIN counts THEN counts[id] ELSE 0

\* The reply id answers a human message that a send stored without previous
\* message: the human message is no revision and the reply is no retry.
AnswersFirstSend(id) ==
    /\ id \in DOMAIN dbMessages
    /\ dbMessages[id].retryOfMessageId = NULL
    /\ dbMessages[id].previousMessageId \in DOMAIN dbMessages
    /\ LET human == dbMessages[dbMessages[id].previousMessageId]
       IN  /\ human.type = "human"
           /\ human.previousMessageId = NULL
           /\ human.revisionOfMessageId = NULL

\* C17: generateSessionTitle is called only by the task of a send without
\* previous message, at most once per task and only when the execution call
\* has ended (the reply is stored and no longer running); the call, failed or
\* not, changes no message and nothing of the call that started the task, and
\* a failed one leaves the session as it was.
C17_TitleOnlyAfterFirstSend ==
    /\ [](\A id \in DOMAIN titleCalls : titleCalls[id] <= 1)
    /\ [][\A id \in MessageIds :
             TitleCallsOf(titleCalls', id) > TitleCallsOf(titleCalls, id) =>
                /\ AnswersFirstSend(id)
                /\ dbMessages[id].status # "running"
                /\ UNCHANGED <<dbMessages, requests, pushed, attachmentStore>>
                /\ DOMAIN sessions' = DOMAIN sessions
                /\ \A sessionId \in DOMAIN sessions :
                      \/ sessions'[sessionId] = sessions[sessionId]
                      \/ /\ sessionId = dbMessages[id].sessionId
                         /\ sessions'[sessionId] =
                               [sessions[sessionId] EXCEPT !.title = "generated"]]_vars

\* The task of a first send has called generateSessionTitle, the call has
\* failed, and the send has returned without error.
C17_Witness ==
    \E c \in Sends :
       /\ requests[c].pc = "done"
       /\ requests[c].thrown = NoError
       /\ requests[c].previousMessageId = NULL
       /\ TitleCallsOf(titleCalls, requests[c].replyId) = 1
       /\ sessions[requests[c].sessionId].title = "New Chat"
       /\ dbMessages[requests[c].replyId].status = "success"

(***************************************************************************)
(* Claims about stopGeneration                                             *)
(***************************************************************************)

Stops == {c \in Clients : requests[c].op = "stop"}

\* The step is the first one of a stopGeneration by client c, for a stored
\* message of a session of the user.
StopStep(c) ==
    /\ calls' = calls + 1
    /\ requests'[c].op = "stop"
    /\ getChatSession(requests'[c].user, requests'[c].sessionId).ownerId # NULL
    /\ TargetStored(requests'[c])

\* C18: stopGeneration for a message that is not an AI message, has no
\* execution or whose status is not running throws a BadRequestError; the
\* statuses of the messages stay as they are and chatHubExecutionService
\* receives no stop call.
C18_OnlyRunningStopped ==
    [][\A c \in Clients :
          StopStep(c) =>
             LET call == requests'[c]
                 stored == dbMessages[call.targetId]
             IN  (\/ stored.type # "ai"
                  \/ stored.executionId = NULL
                  \/ call.message.execution = NULL
                  \/ stored.status # "running") =>
                    /\ call.thrown.type = "BadRequestError"
                    /\ call.pc = "done"
                    /\ stopCalls' = stopCalls
                    /\ dbMessages' = dbMessages]_vars

\* stopGeneration for a reply whose execution has ended with success has been
\* rejected: the status is still success and no stop call was made.
C18_Witness ==
    \E c \in Stops :
       /\ requests[c].pc = "done"
       /\ requests[c].thrown = Error("BadRequestError", "message.status")
       /\ requests[c].message.execution # NULL
       /\ dbMessages[requests[c].targetId].status = "success"
       /\ stopCalls = <<>>

\* C19: stopGeneration for a running AI message with an execution makes a
\* stop call for that execution and, in a later step, sets the status to
\* cancelled; a status becomes cancelled only by a stopGeneration whose stop
\* call has returned, and a stopGeneration whose stop call has thrown ends
\* with that error and never sets the status.
C19_StopThenCancelled ==
    /\ [][\A c \in Clients :
             StopStep(c) /\ requests'[c].thrown = NoError =>
                LET stored == dbMessages[requests'[c].targetId]
                IN  /\ stored.type = "ai"
                    /\ stored.status = "running"
                    /\ stopCalls' = Append(stopCalls, stored.executionId)
                    /\ dbMessages' = dbMessages]_vars
    /\ [][\A id \in DOMAIN dbMessages :
             dbMessages'[id].status = "cancelled" /\ dbMessages[id].status # "cancelled" =>
                \E c \in Stops :
                   /\ requests[c].targetId = id
                   /\ requests[c].stopResult = "ok"
                   /\ \E i \in 1 .. Len(stopCalls) : stopCalls[i] = dbMessages[id].executionId]_vars
    /\ [][\A c \in Clients :
             /\ requests[c].op = "stop"
             /\ requests[c].stopResult = "ok"
             /\ requests[c].pc # "done"
             /\ requests'[c].pc = "done"
             /\ requests'[c].thrown = NoError
             => dbMessages'[requests[c].targetId].status = "cancelled"]_vars
    /\ [](\A c \in Stops :
             requests[c].stopResult = "failed" =>
                /\ requests[c].pc = "done"
                /\ requests[c].thrown = Error("Error", "chatHubExecutionService.stop")
                /\ dbMessages[requests[c].targetId].status # "cancelled")

\* A running reply has been stopped: the stop call for its execution has
\* returned and the status is cancelled.
C19_Witness ==
    \E c \in Stops :
       /\ requests[c].pc = "done"
       /\ requests[c].thrown = NoError
       /\ requests[c].message.status = "running"
       /\ stopCalls = <<dbMessages[requests[c].targetId].executionId>>
       /\ dbMessages[requests[c].targetId].status = "cancelled"

(***************************************************************************)
(* Claims about reconnectToStream                                          *)
(***************************************************************************)

\* The calls of reconnectToStream that have returned.
Reconnected == {i \in 1 .. Len(reconnects) : reconnects[i].pc = "done"}

\* The sequence numbers of the chunks in chunks.
SequenceNumbers(chunks) == {chunks[i].sequenceNumber : i \in 1 .. Len(chunks)}

\* C20: the lastSequenceNumber that reconnectToStream returns is the largest
\* sequence number in the pendingChunks it returns, or lastReceivedSequence
\* when pendingChunks is empty, and is never smaller than lastReceivedSequence.
C20_LastSequenceNumberIsMax ==
    \A i \in Reconnected :
       LET result == reconnects[i]
           numbers == SequenceNumbers(result.pendingChunks)
       IN  /\ numbers = {} => result.lastSequenceNumber = result.lastReceivedSequence
           /\ numbers # {} =>
                 /\ result.lastSequenceNumber \in numbers
                 /\ \A n \in numbers : n <= result.lastSequenceNumber
           /\ result.lastSequenceNumber >= result.lastReceivedSequence

\* A reconnect has returned two chunks that the client had not received after
\* the one it had, and the number of the second as lastSequenceNumber.
C20_Witness ==
    \E i \in Reconnected :
       /\ reconnects[i].lastReceivedSequence = 1
       /\ Len(reconnects[i].pendingChunks) = 2
       /\ reconnects[i].lastSequenceNumber = 3

\* C21: two calls of reconnectToStream with the same lastReceivedSequence,
\* made while no chunk after that sequence number has been produced, both
\* return no pending chunk and lastReceivedSequence as lastSequenceNumber;
\* and no step of reconnectToStream changes the stream or its buffer.
C21_ReconnectIdempotent ==
    /\ [](\A i \in Reconnected, j \in Reconnected :
             /\ i < j
             /\ reconnects[i].lastReceivedSequence = reconnects[j].lastReceivedSequence
             /\ stream.lastSequenceNumber <= reconnects[i].lastReceivedSequence
             => /\ reconnects[i].pendingChunks = <<>>
                /\ reconnects[j].pendingChunks = <<>>
                /\ reconnects[i].lastSequenceNumber = reconnects[i].lastReceivedSequence
                /\ reconnects[j].lastSequenceNumber = reconnects[j].lastReceivedSequence)
    /\ [][reconnects' # reconnects => stream' = stream]_vars

\* A client that has received the two chunks in the buffer has reconnected
\* twice with sequence number 2 and got no chunk either time.
C21_Witness ==
    /\ Reconnected = {1, 2}
    /\ reconnects[1].lastReceivedSequence = 2
    /\ reconnects[2].lastReceivedSequence = 2
    /\ Len(stream.chunks) = 2
    /\ reconnects[1].pendingChunks = <<>>
    /\ reconnects[2].pendingChunks = <<>>

\* Every call of reconnectToStream after the first was made with the
\* lastSequenceNumber that the call before it returned.
Chained ==
    \A i \in 2 .. Len(reconnects) :
       reconnects[i].lastReceivedSequence = reconnects[i - 1].lastSequenceNumber

\* The chunks that the first n calls of reconnectToStream returned, in the
\* order in which the client received them.
RECURSIVE Delivered(_)
Delivered(n) ==
    IF n = 0 THEN <<>> ELSE Delivered(n - 1) \o reconnects[n].pendingChunks

\* The sequence numbers of chunks grow from each chunk to the next.
StrictlyIncreasing(chunks) ==
    \A i \in 1 .. Len(chunks) - 1 :
       chunks[i].sequenceNumber < chunks[i + 1].sequenceNumber

\* C22: the sequence numbers of the buffered chunks are strictly increasing
\* and never above the last one given out; and for a client that passes to
\* each reconnect the lastSequenceNumber of the one before, the chunks of all
\* its reconnects together are in strictly increasing order (none twice) and
\* hold every chunk of the active generation whose number lies after the
\* number the client started with and up to the last number it was returned.
C22_ChainedReconnectsGapFree ==
    /\ StrictlyIncreasing(stream.chunks)
    /\ \A n \in SequenceNumbers(stream.chunks) : n <= stream.lastSequenceNumber
    /\ Chained /\ Reconnected # {} =>
          LET n == Cardinality(Reconnected)
              delivered == Delivered(n)
          IN  /\ StrictlyIncreasing(delivered)
              /\ \A i \in 1 .. Len(stream.chunks) :
                    LET chunk == stream.chunks[i]
                    IN  /\ stream.active
                        /\ chunk.messageId = stream.currentMessageId
                        /\ chunk.sequenceNumber > reconnects[1].lastReceivedSequence
                        /\ chunk.sequenceNumber <= reconnects[n].lastSequenceNumber
                        => \E k \in 1 .. Len(delivered) : delivered[k] = chunk

\* A client has reconnected twice while the generation went on: it got chunk
\* 1 from the first reconnect, passed 1 to the second and got chunks 2 and 3.
C22_Witness ==
    /\ stream.active
    /\ Reconnected = {1, 2}
    /\ reconnects[1].lastReceivedSequence = 0
    /\ Len(reconnects[1].pendingChunks) = 1
    /\ reconnects[2].lastReceivedSequence = 1
    /\ SequenceNumbers(reconnects[2].pendingChunks) = {2, 3}

(***************************************************************************)
(* Claims about the sessions                                               *)
(***************************************************************************)

\* The column that binds a session of this provider to its agent.
BindingOf(provider) ==
    IF provider = "n8n" THEN "workflowId"
    ELSE IF provider = "custom-agent" THEN "agentId"
    ELSE "model"

\* The binding columns of the session that are set.
BindingsSet(session) == {f \in {"workflowId", "agentId", "model"} : session[f] # NULL}

\* A step that is a call of updateSession by client c.
UpdateStep(c) == calls' = calls + 1 /\ requests'[c].op = "updateSession"

\* C23: in every reachable state every session has exactly one of workflowId,
\* agentId and model set, the one of its provider; and a call of updateSession
\* that returns with a new agent leaves the session with the provider of that
\* agent and, in the column of this provider, the agent's workflow, agent or
\* model id.
C23_OneBindingPerSession ==
    /\ [](\A id \in DOMAIN sessions :
             BindingsSet(sessions[id]) = {BindingOf(sessions[id].provider)})
    /\ [][\A c \in Clients :
             (/\ UpdateStep(c)
              /\ requests'[c].thrown = NoError
              /\ requests'[c].model.provider # "none")
             => LET agent == requests'[c].model
                    session == sessions'[requests'[c].sessionId]
                IN  /\ session.provider = agent.provider
                    /\ session[BindingOf(agent.provider)] = agent[BindingOf(agent.provider)]
                    /\ BindingsSet(session) = {BindingOf(agent.provider)}]_vars

\* updateSession has moved a session from a base model to a hosted workflow.
C23_Witness ==
    \E c \in Clients :
       /\ requests[c].op = "updateSession"
       /\ requests[c].thrown = NoError
       /\ requests[c].model.provider = "n8n"
       /\ sessions[requests[c].sessionId].workflowId = 1
       /\ sessions[requests[c].sessionId].model = NULL
       /\ sessions[requests[c].sessionId].title = "generated"

\* A step that is the transaction of a call of sendHumanMessage by client c.
SendStep(c) == calls' = calls + 1 /\ requests'[c].op = "send"

\* C24: when sendHumanMessage is called with a session id under which the user
\* has no session, a transaction that commits has created the session, owned
\* by the user and bound to the model of the payload, together with the human
\* message; a transaction that fails leaves the sessions and the messages as
\* they were, and so does the cleanup that follows it.  A call that returned
\* has its session and its message stored, a call whose transaction failed
\* has no message stored.
C24_SessionCreatedWithMessage ==
    /\ [][\A c \in Clients :
             /\ (/\ SendStep(c)
                  /\ getChatSession(requests'[c].user, requests'[c].sessionId).ownerId = NULL)
                 => IF requests'[c].committed
                    THEN LET sessionId == requests'[c].sessionId
                             messageId == requests'[c].messageId
                             model == requests'[c].model
                         IN  /\ sessionId \notin DOMAIN sessions
                             /\ sessionId \in DOMAIN sessions'
                             /\ sessions'[sessionId].ownerId = requests'[c].user
                             /\ sessions'[sessionId].provider = model.provider
                             /\ sessions'[sessionId][BindingOf(model.provider)]
                                   = model[BindingOf(model.provider)]
                             /\ messageId \notin DOMAIN dbMessages
                             /\ messageId \in DOMAIN dbMessages'
                             /\ dbMessages'[messageId].type = "human"
                             /\ dbMessages'[messageId].sessionId = sessionId
                    ELSE /\ requests'[c].thrown # NoError \/ requests'[c].pc = "cleanup"
                         /\ sessions' = sessions
                         /\ dbMessages' = dbMessages
             /\ (/\ requests[c].op = "send"
                  /\ requests[c].pc = "cleanup"
                  /\ requests'[c].pc = "done")
                 => /\ requests'[c].thrown # NoError
                    /\ sessions' = sessions
                    /\ dbMessages' = dbMessages]_vars
    /\ [](\A c \in Clients :
             requests[c].op = "send" /\ requests[c].pc = "done"
             => IF requests[c].thrown = NoError
                THEN /\ getChatSession(requests[c].user, requests[c].sessionId).ownerId
                          = requests[c].user
                     /\ getOneById(requests[c].messageId, requests[c].sessionId).id
                          = requests[c].messageId
                ELSE requests[c].txError # NoError
                     => requests[c].messageId \notin DOMAIN dbMessages)

\* A send has returned after creating a session bound to a custom agent.
C24_Witness ==
    \E c \in Clients :
       /\ requests[c].op = "send"
       /\ requests[c].pc = "done"
       /\ requests[c].thrown = NoError
       /\ requests[c].model.provider = "custom-agent"
       /\ sessions[requests[c].sessionId].agentId = 1
       /\ sessions[requests[c].sessionId].title = "New Chat"
       /\ dbMessages[requests[c].messageId].previousMessageId = NULL

(***************************************************************************)
(* Claims about the chains of messages                                     *)
(***************************************************************************)

\* The stored messages that descend from none of each other: neither is an
\* ancestor of the other.
Divergent(a, b) ==
    /\ a # b
    /\ a \notin Ancestors(b, Cardinality(DOMAIN dbMessages))
    /\ b \notin Ancestors(a, Cardinality(DOMAIN dbMessages))

BuilderStep(op) == builderCalls' = builderCalls + 1 /\ builderCall'.op = op

\* C26: a call of clearSession(threadId) that returns leaves no checkpoint of
\* the thread in the checkpointer and no session of it in the storage, and a
\* call of getSessions for the workflow and user of that thread that follows
\* it returns no session.
C26_ClearedSessionNotListed ==
    [][/\ (BuilderStep("clearSession") /\ builderCall'.result = "ok")
           => /\ builderCall'.threadId \notin DOMAIN storage'
              /\ builderCall'.threadId \notin DOMAIN checkpointer'
       /\ (/\ builderCall.op = "clearSession"
            /\ builderCall.result = "ok"
            /\ BuilderStep("getSessions")
            /\ builderCall'.threadId = builderCall.threadId)
           => builderCall'.sessions = <<>>]_vars

\* The list truncateMessagesAfter reads for the thread: the stored one when a
\* storage is configured, else the checkpointed one; `found` tells whether
\* there is a session to read.
TruncateSource(threadId) ==
    IF usesPersistence
    THEN IF threadId \in DOMAIN storage
         THEN [found |-> TRUE, messages |-> storage[threadId].messages]
         ELSE [found |-> FALSE, messages |-> <<>>]
    ELSE IF threadId \in DOMAIN checkpointer /\ checkpointer[threadId].valid
         THEN [found |-> TRUE, messages |-> checkpointer[threadId].messages]
         ELSE [found |-> FALSE, messages |-> <<>>]

\* kept is what precedes the first message of msgs that carries messageId.
PrecedesFirst(kept, msgs, messageId) ==
    /\ Len(kept) < Len(msgs)
    /\ \A i \in 1 .. Len(kept) : kept[i] = msgs[i] /\ kept[i].messageId # messageId
    /\ msgs[Len(kept) + 1].messageId = messageId

\* C27: a call of truncateMessagesAfter that returns true leaves, in the
\* storage if one is configured and in the checkpoint of the thread if one
\* exists, exactly the messages that preceded the first message carrying the
\* messageId in the list the service reads (the stored one when a storage is
\* configured, else the checkpointed one), with the stored previousSummary as
\* it was and every other thread untouched; a call for a thread without
\* session, or with a messageId no message of the list carries, returns false
\* and changes neither the storage nor the checkpointer.
C27_TruncateMessagesAfter ==
    [][BuilderStep("truncateMessagesAfter")
       => LET threadId == builderCall'.threadId
              messageId == builderCall'.messageId
              source == TruncateSource(threadId)
              carried == \E i \in 1 .. Len(source.messages) :
                            source.messages[i].messageId = messageId
          IN  /\ builderCall'.result = "true"
                 => /\ source.found
                    /\ usesPersistence
                       => /\ DOMAIN storage' = DOMAIN storage
                          /\ PrecedesFirst(storage'[threadId].messages, source.messages,
                                           messageId)
                          /\ storage'[threadId].previousSummary
                                = storage[threadId].previousSummary
                          /\ \A t \in DOMAIN storage \ {threadId} : storage'[t] = storage[t]
                    /\ ~usesPersistence => storage' = storage
                    /\ DOMAIN checkpointer' = DOMAIN checkpointer
                    /\ threadId \in DOMAIN checkpointer
                       => PrecedesFirst(checkpointer'[threadId].messages, source.messages,
                                        messageId)
                    /\ \A t \in DOMAIN checkpointer \ {threadId} :
                          checkpointer'[t] = checkpointer[t]
              /\ (~source.found \/ ~carried)
                 => /\ builderCall'.result = "false"
                    /\ storage' = storage
                    /\ checkpointer' = checkpointer]_vars

\* Of three stored messages the second carried the messageId: the call has
\* returned true and left the first, in the storage with its summary and in
\* the checkpoint.
C27_Witness ==
    /\ builderCall.op = "truncateMessagesAfter"
    /\ builderCall.result = "true"
    /\ builderCall.originalCount = 3
    /\ usesPersistence
    /\ Len(storage[builderCall.threadId].messages) = 1
    /\ storage[builderCall.threadId].previousSummary = 1
    /\ builderCall.threadId \in DOMAIN checkpointer
    /\ Len(checkpointer[builderCall.threadId].messages) = 1

(***************************************************************************)
(* Claims about RedisChatHistory                                           *)
(***************************************************************************)

\* The messages of the appending calls after the first k, call after call.
RECURSIVE AppendedAfter(_)
AppendedAfter(k) ==
    IF k >= Len(redisAppends) THEN <<>>
    ELSE redisAppends[k + 1] \o AppendedAfter(k + 1)

\* msgs is what the appending calls after some call appended, each call's
\* messages together and in its order, the calls in the order in which they
\* appended, with no call missing that appended after the key last expired
\* or was cleared.
InAppendOrder(msgs) == \E k \in 0 .. redisKept : msgs = AppendedAfter(k)

\* C28: while clients call addMessage, addMessages, getMessages and clear on
\* one key in any interleaving, with the key expiring at any time, the list
\* under the key holds at every moment the messages of the appending calls in
\* append order: each message once, the messages of one call together and in
\* the order given, none missing that was appended after the key last expired
\* or was cleared; and getMessages returns such a list, the one under the key
\* unless the key has expired.
C28_AppendsAtomic ==
    /\ [](redisStore.exists => InAppendOrder(Parsed(redisStore.values)))
    /\ [][\A c \in RedisClients :
             redisCalls[c].pc = "lrange" /\ redisCalls'[c].pc = "done"
             => /\ InAppendOrder(redisCalls'[c].result)
                /\ redisStore.exists /\ redisStore.expiry # "passed"
                   => redisCalls'[c].result = Parsed(redisStore.values)]_vars

\* Both clients were in their calls at once, one in addMessages with two
\* messages and one in addMessage, and both have appended: the three messages
\* lie under the key behind the item that is no JSON, the two together.
C28_Witness ==
    /\ Len(redisAppends) = 2
    /\ \A c \in RedisClients : redisCalls[c].sent > 0 /\ redisCalls[c].pc = "expire"
    /\ \E c \in RedisClients : redisCalls[c].op = "addMessages" /\ redisCalls[c].sent = 2
    /\ \E c \in RedisClients : redisCalls[c].op = "addMessage"
    /\ Len(redisStore.values) = 4
    /\ Len(Parsed(redisStore.values)) = 3

(***************************************************************************)
(* Claims about calls that race                                            *)
(***************************************************************************)

\* C38: what reconnectToStream returns is a consistent snapshot: if
\* hasActiveStream is true then currentMessageId is not null, and every
\* pending chunk returned belongs to the message currentMessageId names.
C38_ReconnectSnapshotConsistent ==
    \A i \in Reconnected :
       LET result == reconnects[i]
       IN  /\ result.hasActiveStream => result.currentMessageId # NULL
           /\ \A k \in 1 .. Len(result.pendingChunks) :
                 result.pendingChunks[k].messageId = result.currentMessageId

\* C31: whatever the interleaving of stopGeneration with the end of the
\* execution, a message whose status is success or error is not given the
\* status cancelled.
C31_EndedNeverCancelled ==
    [][\A id \in DOMAIN dbMessages :
          dbMessages[id].status \in {"success", "error"} =>
             dbMessages'[id].status # "cancelled"]_vars

\* The sends that have issued a resume.
Resumers == {c \in RaceClients : requests[c].op = "send" /\ requests[c].resumed}

RaceSendStep(c) ==
    /\ calls' = calls + 1
    /\ requests'[c] # requests[c]
    /\ requests'[c].op = "send"
    /\ requests'[c].committed

C34_CleanupSparesKeptAttachments ==
    [][\A c \in Clients :
          /\ requests[c].op = "edit"
          /\ requests[c].pc = "cleanup"
          /\ requests'[c].pc = "done"
          => LET original == dbMessages[requests[c].targetId]
             IN  /\ (attachmentStore \ attachmentStore') \subseteq
                       requests[c].processedAttachments
                 /\ requests[c].processedAttachments \subseteq
                       AttachmentIds(requests[c].messageId, MaxAttachments)
                 /\ \A keepAttachmentIndices \in SUBSET (1 .. MaxAttachments + 1) :
                       KeptAttachments(original.attachments, keepAttachmentIndices)
                          \cap (attachmentStore \ attachmentStore') = {}
                 /\ original.attachments \cap attachmentStore
                       \subseteq attachmentStore'
                 /\ dbMessages'[requests[c].targetId].attachments = original.attachments]_vars

\* The edit of message 1, which has an attachment, has failed in its
\* transaction after storing a new attachment: the cleanup has deleted the
\* new one, and the attachment of message 1 is stored as before.
C34_Witness ==
    \E c \in Clients :
       /\ requests[c].op = "edit"
       /\ requests[c].pc = "done"
       /\ requests[c].deleteAttempted
       /\ requests[c].targetId = 1
       /\ dbMessages[1].attachments = {<<1, 1>>}
       /\ <<1, 1>> \in attachmentStore
       /\ requests[c].processedAttachments # {}
       /\ requests[c].processedAttachments \cap attachmentStore = {}

\* The message-edit broadcasts sent so far.
MessageEditsPushed == {p \in pushed : p.type = "messageEdit"}

\* C35: the message-edit broadcast of a committed human-message edit carries
\* the revisionOfMessageId persisted on the new revision, also when the edited
\* message is itself a revision.
C35_BroadcastCarriesPersistedRevision ==
    \A p \in MessageEditsPushed :
       /\ p.messageId \in DOMAIN dbMessages
       /\ p.revisionOfMessageId = dbMessages[p.messageId].revisionOfMessageId

\* The human messages among the ancestors of message id that have no human
\* message between them and message id: the most recent one, if there is any.
LastHumanAncestors(id) ==
    {h \in Ancestors(id, Cardinality(DOMAIN dbMessages)) :
        /\ dbMessages[h].type = "human"
        /\ \A m \in StrictlyBetween(h, id) : dbMessages[m].type # "human"}

\* C37: a regenerate whose transaction commits has taken the most recent
\* human message among the ancestors of the retried message, which need not
\* be its parent: the history given to prepareReplyWorkflow ends with it, its
\* content and attachments are the input, and the reply is launched, and
\* stored, as its child; a regenerate of an AI message without human ancestor
\* throws a BadRequestError, launches nothing and reserves no reply.
C37_RetryAnswersLastHuman ==
    /\ [](\A c \in Regenerates :
             LET call == requests[c]
             IN  /\ call.committed =>
                       /\ LastHumanAncestors(call.targetId) = {call.previousMessageId}
                       /\ call.history[Len(call.history)] = call.previousMessageId
                       /\ call.input =
                             [message |-> dbMessages[call.previousMessageId].content,
                              attachments |-> dbMessages[call.previousMessageId].attachments]
                       /\ call.replyId \in DOMAIN tasks =>
                             tasks[call.replyId].previousMessageId = call.previousMessageId
                       /\ call.replyId \in DOMAIN dbMessages =>
                             dbMessages[call.replyId].previousMessageId
                                = call.previousMessageId
                 /\ /\ TargetStored(call)
                    /\ dbMessages[call.targetId].type = "ai"
                    /\ LastHumanAncestors(call.targetId) = {}
                    => /\ call.pc = "done"
                       /\ call.thrown = Error("BadRequestError", "lastHumanMessage")
                       /\ ~call.launched
                       /\ call.replyId = NULL
                       /\ tasks = <<>>)
    /\ [][\A c \in Clients :
             RegenerateStep(c) /\ requests'[c].thrown # NoError =>
                UNCHANGED <<tasks, dbMessages, nextMessageId>>]_vars

\* Reply 4, whose parent is a system message, has been regenerated: the new
\* reply is stored as a child of human message 1, two messages further up,
\* and the input was the content and the attachment of message 1.
C37_Witness ==
    \E c \in Regenerates :
       /\ requests[c].launched
       /\ requests[c].targetId = 4
       /\ dbMessages[4].previousMessageId = 3
       /\ requests[c].previousMessageId = 1
       /\ requests[c].input = [message |-> "hello", attachments |-> {<<1, 1>>}]
       /\ requests[c].replyId \in DOMAIN dbMessages
       /\ dbMessages[requests[c].replyId].previousMessageId = 1

\* The calls that make a revision: edits and regenerates.
Revisers == {c \in Clients : requests[c].op \in {"edit", "regenerate"}}

\* The call has returned without error after its transaction made a new
\* branch: an edit of a human message, or a regenerate.
RevisionReturned(call) ==
    /\ call.pc = "done"
    /\ call.thrown = NoError
    /\ call.replyId # NULL

C33_HostedRepliesNeverEdited ==
    [][\A id \in DOMAIN dbMessages :
          /\ dbMessages[id].type = "ai"
          /\ dbMessages[id].sessionId \in DOMAIN sessions
          /\ sessions[dbMessages[id].sessionId].provider = "n8n"
          => dbMessages'[id].content = dbMessages[id].content]_vars

\* The operations on a session of the caller that C39 is about.
GuardedOps == {"stop", "edit", "regenerate", "updateSession", "deleteSession"}

\* The user has no session with this id: there is none, or it is another's.
NotOwned(user, sessionId) ==
    \/ sessionId \notin DOMAIN sessions
    \/ sessions[sessionId].ownerId # user

\* C39: stopGeneration, editMessage, regenerateAIMessage, updateSession and
\* deleteSession called by a user for a session that does not exist or that
\* another user owns end in their first step with a NotFoundError and leave
\* the sessions, the messages, the attachments, the executions and the
\* broadcasts as they are.
C39_ForeignSessionUntouched ==
    [][\A c \in Clients :
          /\ calls' = calls + 1
          /\ requests'[c].op \in GuardedOps
          /\ NotOwned(requests'[c].user, requests'[c].sessionId)
          => /\ requests'[c].thrown.type = "NotFoundError"
             /\ requests'[c].pc = "done"
             /\ ~requests'[c].committed
             /\ UNCHANGED <<sessions, dbMessages, attachmentStore, pushed, tasks,
                            nextMessageId, nextExecutionId, stopCalls, titleCalls>>]_vars

\* A user has called deleteSession for the session of another user: the call
\* has thrown a NotFoundError, and the session, its two messages and the
\* attachment are still there.
C39_Witness ==
    \E c \in Clients :
       /\ requests[c].op = "deleteSession"
       /\ requests[c].pc = "done"
       /\ requests[c].thrown = Error("NotFoundError", "ensureConversation")
       /\ requests[c].sessionId \in DOMAIN sessions
       /\ sessions[requests[c].sessionId].ownerId \in OtherUsers
       /\ DOMAIN dbMessages = {1, 2}
       /\ attachmentStore = {<<1, 1>>}

(***************************************************************************)
(* Specifications                                                          *)
(***************************************************************************)

NextWalk == WalkEnter \/ WalkStep \/ WalkReturn

InitHistory == InitWalk /\ IdleAttachment /\ IdleConversation /\ IdleService /\ IdleBuilder /\ IdleRedis

SpecHistory == InitHistory /\ [][NextWalk]_vars

\* The call is one synchronous function: once entered it keeps running.
FairSpecHistory == SpecHistory /\ WF_vars(NextWalk)

NextAttachment == ResolveAttachment

InitAttachmentCall == IdleWalk /\ InitAttachment /\ IdleConversation /\ IdleService /\ IdleBuilder /\ IdleRedis

SpecAttachment == InitAttachmentCall /\ [][NextAttachment]_vars

NextConversation == BuildConversation

InitConversationCall == IdleWalk /\ IdleAttachment /\ InitConversation /\ IdleService /\ IdleBuilder /\ IdleRedis

SpecConversation == InitConversationCall /\ [][NextConversation]_vars

Next ==
    \/ \E c \in Clients :
          \/ SendTransaction(c)
          \/ SendCleanup(c)
          \/ SendBroadcast(c)
          \/ SendAfterBroadcast(c)
          \/ SendMarkSuccess(c)
          \/ SendResume(c)
          \/ EditTransaction(c)
          \/ EditCleanup(c)
          \/ EditBroadcast(c)
          \/ EditLaunch(c)
          \/ RegenerateTransaction(c)
          \/ RegenerateLaunch(c)
    \/ \E id \in MessageIds :
          \/ ExecutionStart(id)
          \/ ExecutionEnd(id)
          \/ GenerateTitle(id)

Init == IdleWalk /\ IdleAttachment /\ IdleConversation /\ InitService /\ IdleBuilder /\ IdleRedis

Spec == Init /\ [][Next]_vars

NextEdit ==
    \/ \E c \in Clients :
          \/ EditTransaction(c)
          \/ EditCleanup(c)
          \/ EditBroadcast(c)
          \/ EditLaunch(c)
    \/ \E id \in MessageIds :
          \/ ExecutionStart(id)
          \/ ExecutionEnd(id)
          \/ GenerateTitle(id)

InitEdit == IdleWalk /\ IdleAttachment /\ IdleConversation /\ InitEditService /\ IdleBuilder /\ IdleRedis

SpecEdit == InitEdit /\ [][NextEdit]_vars

NextRegenerate ==
    \/ \E c \in Clients :
          \/ RegenerateTransaction(c)
          \/ RegenerateLaunch(c)
    \/ \E id \in MessageIds :
          \/ ExecutionStart(id)
          \/ ExecutionEnd(id)
          \/ GenerateTitle(id)

InitRegenerate == IdleWalk /\ IdleAttachment /\ IdleConversation /\ InitRegenerateService /\ IdleBuilder /\ IdleRedis

SpecRegenerate == InitRegenerate /\ [][NextRegenerate]_vars

NextStop ==
    \/ \E c \in Clients :
          \/ StopCheck(c)
          \/ StopReturns(c)
          \/ StopMarkCancelled(c)
    \/ \E id \in MessageIds :
          \/ ExecutionStart(id)
          \/ ExecutionEnd(id)
          \/ GenerateTitle(id)

InitStop == IdleWalk /\ IdleAttachment /\ IdleConversation /\ InitStopService /\ IdleBuilder /\ IdleRedis

SpecStop == InitStop /\ [][NextStop]_vars

NextStream ==
    \/ \E id \in MessageIds : StreamStart(id)
    \/ StreamChunk
    \/ StreamEnd
    \/ StreamEvict
    \/ ReconnectActive
    \/ ReconnectCurrent
    \/ ReconnectChunks

InitStream == IdleWalk /\ IdleAttachment /\ IdleConversation /\ IdleService /\ IdleBuilder /\ IdleRedis

SpecStream == InitStream /\ [][NextStream]_vars

NextBuilder ==
    \/ LoadSessionIntoCheckpointer
    \/ SaveSessionFromCheckpointer
    \/ ClearSession
    \/ GetSessions
    \/ TruncateMessagesAfter

InitBuilderCall == IdleWalk /\ IdleAttachment /\ IdleConversation /\ IdleService /\ InitBuilder /\ IdleRedis

SpecBuilder == InitBuilderCall /\ [][NextBuilder]_vars

NextRedis ==
    \/ \E c \in RedisClients :
          \/ RedisCall(c)
          \/ RedisPush(c)
          \/ RedisExpire(c)
          \/ RedisGetMessages(c)
          \/ RedisClear(c)
    \/ RedisKeyExpires

InitRedisCall ==
    IdleWalk /\ IdleAttachment /\ IdleConversation /\ IdleService /\ IdleBuilder /\ InitRedis

SpecRedis == InitRedisCall /\ [][NextRedis]_vars

NextBranched ==
    \/ Next
    \/ \E c \in Clients :
          \/ StopCheck(c)
          \/ StopReturns(c)
          \/ StopMarkCancelled(c)

InitBranched == IdleWalk /\ IdleAttachment /\ IdleConversation /\ InitBranchedService /\ IdleBuilder /\ IdleRedis

SpecBranched == InitBranched /\ [][NextBranched]_vars

NextRace ==
    \/ \E c \in RaceClients :
          \/ SendTransaction(c)
          \/ SendCleanup(c)
          \/ SendBroadcast(c)
          \/ SendAfterBroadcast(c)
          \/ SendMarkSuccess(c)
          \/ SendResume(c)
    \/ \E id \in MessageIds :
          \/ ExecutionStart(id)
          \/ ExecutionEnd(id)
          \/ GenerateTitle(id)

InitRace == IdleWalk /\ IdleAttachment /\ IdleConversation /\ InitRaceService /\ IdleBuilder /\ IdleRedis

SpecRace == InitRace /\ [][NextRace]_vars

NextRevise ==
    \/ \E c \in Clients :
          \/ EditTransaction(c)
          \/ EditCleanup(c)
          \/ EditBroadcast(c)
          \/ EditLaunch(c)
          \/ RegenerateTransaction(c)
          \/ RegenerateLaunch(c)
    \/ \E id \in MessageIds :
          \/ ExecutionStart(id)
          \/ ExecutionEnd(id)
          \/ GenerateTitle(id)

InitRevise == IdleWalk /\ IdleAttachment /\ IdleConversation /\ InitEditService /\ IdleBuilder /\ IdleRedis

SpecRevise == InitRevise /\ [][NextRevise]_vars

NextOwnership ==
    \/ \E c \in Clients :
          \/ StopCheck(c)
          \/ StopReturns(c)
          \/ StopMarkCancelled(c)
          \/ EditTransaction(c)
          \/ EditCleanup(c)
          \/ EditBroadcast(c)
          \/ EditLaunch(c)
          \/ RegenerateTransaction(c)
          \/ RegenerateLaunch(c)
          \/ UpdateSession(c)
          \/ DeleteSession(c)
    \/ \E id \in MessageIds :
          \/ ExecutionStart(id)
          \/ ExecutionEnd(id)
          \/ GenerateTitle(id)

InitOwnership == IdleWalk /\ IdleAttachment /\ IdleConversation /\ InitOwnershipService /\ IdleBuilder /\ IdleRedis

SpecOwnership == InitOwnership /\ [][NextOwnership]_vars

NextSession ==
    \/ \E c \in Clients :
          \/ UpdateSession(c)
          \/ SendTransaction(c)
          \/ SendCleanup(c)
          \/ SendBroadcast(c)
          \/ SendAfterBroadcast(c)
          \/ SendMarkSuccess(c)
          \/ SendResume(c)
    \/ \E id \in MessageIds :
          \/ ExecutionStart(id)
          \/ ExecutionEnd(id)
          \/ GenerateTitle(id)

InitSession == IdleWalk /\ IdleAttachment /\ IdleConversation /\ InitSessionService /\ IdleBuilder /\ IdleRedis

SpecSession == InitSession /\ [][NextSession]_vars

====
